---- MODULE Spec2Model ----
(***************************************************************************)
(* Session engine of OnClaude: the PTY session manager (PTYManager), the   *)
(* pattern library (parseOptions), the trigger detector (Watcher) and the   *)
(* broadcast layer of server.js.                                            *)
(*                                                                          *)
(* Text is a sequence of characters, each character a one-element string.   *)
(* Characters that are not ASCII are written as tokens: "ESC" is U+001B,    *)
(* "E9" is U+00E9 (two bytes in UTF-8), "DASH" is U+254C (three bytes).     *)
(* A nullable value is <<>> (null) or <<v>>.                                *)
(***************************************************************************)
EXTENDS Integers, Sequences, FiniteSets, TLC

VARIABLES
    \* Watcher (watcher.js)
    lines,        \* Watcher.lines: the rolling window
    lastTrigger,  \* Watcher.lastTrigger: null or the hash string of the held prompt
    nTrigger,     \* number of onTrigger callback invocations so far
    wlog,         \* history of the Watcher calls (process / reset), oldest first
    \* PTYManager (option-parser.js)
    running,      \* PTYManager.running
    exitCode,     \* PTYManager.exitCode: null or the code
    buffer,       \* PTYManager.buffer: the bytes kept
    pty,          \* PTYManager.pty: null or the subprocess of the last spawn
    \* the subprocesses
    procs,        \* the spawned subprocesses whose exit notification is still to come
    nSpawned,     \* number of subprocesses spawned so far
    signaled,     \* the subprocesses pty.kill was called on
    written,      \* what pty.write was called with: <<subprocess, data>>, oldest first
    stream,       \* history of the PTYManager: each spawn and each chunk received
    \* server.js
    mockMode,         \* config.mockMode
    themeSent,        \* themeSent
    themeTimers,      \* pending timers of the theme selection
    mockInputHandler, \* mockInputHandler: null or the waiting item
    mockTimers,       \* pending timers of runMockSequence: the items about to be output
    clients,          \* clients: the live connections
    ws,               \* each connection: readyState, close code, violations, messageTimestamps
    recv,             \* what was sent to each connection, oldest first
    wsConnections,    \* wsConnections: source address -> connection timestamps
    bannedIps,        \* bannedIps: source address -> null or the ban expiry
    sessions,         \* sessions: token -> null or the creation time
    admitted,         \* history of the admissions: <<source address, time>>, oldest first
    lastBan,          \* history of the bans: source address -> null or the expiry last set
    now,              \* Date.now()
    nTicks,           \* number of times the clock was seen to advance
    crashed,          \* an error left a handler uncaught: the process is gone
    nMsgs,            \* number of inbound messages handled so far
    \* option-parser.js: the registry of patterns
    patterns,         \* OPTION_PATTERNS and sortedPatterns
    registered,       \* history of addPattern: the patterns as they were passed, oldest first
    \* Notifier
    notifier,         \* topic, lastNotificationHash, lastNotificationTime, stats
    fetches,          \* the requests to the push relay awaiting their response
    nlog,             \* history of the Notifier while a topic is configured
    evt               \* the event handled last

watcherVars == <<lines, lastTrigger, nTrigger, wlog>>
ptyVars == <<running, exitCode, buffer, pty, procs, nSpawned, signaled, written, stream>>
themeVars == <<themeSent, themeTimers>>
mockVars == <<mockInputHandler, mockTimers>>
accessVars == <<wsConnections, bannedIps, sessions, admitted, lastBan>>
timeVars == <<now, nTicks>>
patternVars == <<patterns, registered>>
notifierVars == <<notifier, fetches, nlog>>
serverVars ==
    <<mockMode, themeVars, mockVars, clients, ws, recv, accessVars, timeVars, crashed, nMsgs,
      patternVars, notifierVars, evt>>

vars == <<watcherVars, ptyVars, serverVars>>

None == <<>>
Some(v) == <<v>>

----------------------------------------------------------------------------
(* Bounds of the model *)

\* Watcher.maxLines as configured for the model (the program's default is 50)
maxLines == 2
\* number of Watcher.process calls explored
MaxChunks == 3
\* number of Watcher.reset calls explored
MaxResets == 2
\* PTYManager.bufferSize as configured for the model (the program's default is
\* 100 * 1024)
bufferSize == 6
\* number of subprocesses spawned
MaxSpawns == 2
\* number of chunks the subprocesses emit
MaxData == 2
\* number of inbound client messages handled
MaxMsgs == 2
\* number of mock timers that fire
MaxMockSteps == 5
\* number of connections admitted while the admission rules are explored
MaxAdmits == 11
\* number of inbound messages handled while the abuse rules are explored, after
\* those of the initial state
MaxFlood == 7
\* number of connections admitted while the abuse rules are explored, after
\* those of the initial state
MaxAbuseAdmits == 1
\* number of connections admitted while the ban is explored, after those of the
\* initial state
MaxBanAdmits == 11
\* number of times the clock advances
MaxTicks == 1
\* number of writes the PTYManager forwards when driven directly
MaxWrites == 2
\* number of inbound messages handled while stop and restart are explored
MaxRestartMsgs == 4
MaxParseLines == 3
MaxPatterns == 3
MaxNotifyMsgs == 2
MaxLogoutAdmits == 3
MaxArgsHead == 1
MaxArgsFlags == 9
MaxArgsTail == 2

----------------------------------------------------------------------------
(* Characters and strings *)

Digit == {"0", "1", "2", "3", "4", "5", "6", "7", "8", "9"}
DigitSeq == <<"0", "1", "2", "3", "4", "5", "6", "7", "8", "9">>
UpperSeq == <<"A", "B", "C", "D", "E", "F", "G", "H", "I", "J", "K", "L", "M",
              "N", "O", "P", "Q", "R", "S", "T", "U", "V", "W", "X", "Y", "Z">>
LowerSeq == <<"a", "b", "c", "d", "e", "f", "g", "h", "i", "j", "k", "l", "m",
              "n", "o", "p", "q", "r", "s", "t", "u", "v", "w", "x", "y", "z">>
Upper == {UpperSeq[i] : i \in 1..26}
Lower == {LowerSeq[i] : i \in 1..26}
Letter == Upper \cup Lower
\* the characters \s and String.prototype.trim treat as white space
WhiteSpace == {" ", "\t", "\n", "\r"}

toLowerCase(c) == IF c \in Upper THEN LowerSeq[CHOOSE i \in 1..26 : UpperSeq[i] = c] ELSE c
toUpperCase(c) == IF c \in Lower THEN UpperSeq[CHOOSE i \in 1..26 : LowerSeq[i] = c] ELSE c

\* the suffix of s that starts at position i (String.prototype.slice(i - 1))
Drop(s, i) == SubSeq(s, i, Len(s))

\* slice(-n): the last n elements
LastN(s, n) == IF Len(s) > n THEN SubSeq(s, Len(s) - n + 1, Len(s)) ELSE s

\* the literal lit occurs in t at position i (with the regex flag i when ci)
MatchAt(t, i, lit, ci) ==
    /\ i >= 1
    /\ i + Len(lit) - 1 <= Len(t)
    /\ \A k \in 1..Len(lit) :
         IF ci THEN toLowerCase(t[i + k - 1]) = toLowerCase(lit[k])
               ELSE t[i + k - 1] = lit[k]

Contains(t, lit, ci) == \E i \in 1..Len(t) : MatchAt(t, i, lit, ci)

\* the end of the longest run of characters of class cls that starts at i
\* (i - 1 when t[i] is not in cls)
RECURSIVE RunEnd(_, _, _)
RunEnd(t, i, cls) ==
    IF i <= Len(t) /\ t[i] \in cls THEN RunEnd(t, i + 1, cls) ELSE i - 1

\* String.prototype.split('\n')
RECURSIVE Split(_)
Split(t) ==
    IF \E i \in 1..Len(t) : t[i] = "\n"
    THEN LET i == CHOOSE j \in 1..Len(t) :
                     t[j] = "\n" /\ \A k \in 1..(j - 1) : t[k] # "\n"
         IN <<SubSeq(t, 1, i - 1)>> \o Split(Drop(t, i + 1))
    ELSE <<t>>

\* Array.prototype.join('\n')
RECURSIVE Join(_)
Join(ls) ==
    IF Len(ls) = 0 THEN <<>>
    ELSE IF Len(ls) = 1 THEN ls[1]
    ELSE ls[1] \o <<"\n">> \o Join(Tail(ls))

\* String.prototype.trim
Trim(t) ==
    IF \A i \in 1..Len(t) : t[i] \in WhiteSpace THEN <<>>
    ELSE LET a == CHOOSE i \in 1..Len(t) :
                      t[i] \notin WhiteSpace /\ \A k \in 1..(i - 1) : t[k] \in WhiteSpace
             b == CHOOSE i \in 1..Len(t) :
                      t[i] \notin WhiteSpace /\ \A k \in (i + 1)..Len(t) : t[k] \in WhiteSpace
         IN SubSeq(t, a, b)

\* parseInt of a string of decimal digits
RECURSIVE parseInt(_)
parseInt(num) ==
    IF Len(num) = 0 THEN 0
    ELSE parseInt(SubSeq(num, 1, Len(num) - 1)) * 10
         + ((CHOOSE i \in 1..10 : DigitSeq[i] = num[Len(num)]) - 1)

----------------------------------------------------------------------------
(* Pattern library: option-parser.js *)

\* the literals of the patterns; SelectOption is the prompt every result of
\* parseOptions carries
Str ==
    [yn_paren |-> <<"(", "y", "/", "n", ")">>,
     yn_brack |-> <<"[", "y", "/", "n", "]">>,
     yna |-> <<"(", "y", "/", "n", "/", "a", ")">>,
     ynalways |-> <<"(", "y", "/", "n", "/", "a", "l", "w", "a", "y", "s", ")">>,
     press |-> <<"p", "r", "e", "s", "s">>,
     enter |-> <<"e", "n", "t", "e", "r">>,
     enter_to_confirm |-> <<"E", "n", "t", "e", "r", " ", "t", "o", " ", "c", "o", "n", "f", "i", "r", "m">>,
     enter_to_select |-> <<"E", "n", "t", "e", "r", " ", "t", "o", " ", "s", "e", "l", "e", "c", "t">>,
     Yes |-> <<"Y", "e", "s">>,
     No |-> <<"N", "o">>,
     Always |-> <<"A", "l", "w", "a", "y", "s">>,
     OK |-> <<"O", "K">>,
     y |-> <<"y">>,
     n |-> <<"n">>,
     a |-> <<"a">>,
     SelectOption |-> <<"S", "e", "l", "e", "c", "t", " ", "o", "p", "t", "i", "o", "n", ":">>]

Option(label, value) == [label |-> label, value |-> value]

\* OPTION_PATTERNS, in the order of the array; regex and extract are
\* PatternMatches and PatternExtract below
OPTION_PATTERNS ==
    << [name |-> "yes-no", priority |-> 10],
       [name |-> "yes-no-always", priority |-> 11],
       [name |-> "numbered-options", priority |-> 15],
       [name |-> "press-enter", priority |-> 9],
       [name |-> "letter-in-parens", priority |-> 8] >>

\* /\(y\/n\)|\[y\/n\]|\[Y\/n\]|\[y\/N\]/i
YesNoRegex(t) == Contains(t, Str.yn_paren, TRUE) \/ Contains(t, Str.yn_brack, TRUE)

\* /\(y\/n\/a(?:lways)?\)/i
YesNoAlwaysRegex(t) == Contains(t, Str.yna, TRUE) \/ Contains(t, Str.ynalways, TRUE)

\* /(\d+)\.\s+([A-Z])/ matches t at position i
NumberedAt(t, i) ==
    /\ i >= 1 /\ i <= Len(t)
    /\ t[i] \in Digit
    /\ LET d == RunEnd(t, i, Digit)
       IN /\ d + 1 <= Len(t)
          /\ t[d + 1] = "."
          /\ LET w == RunEnd(t, d + 2, WhiteSpace)
             IN /\ w >= d + 2
                /\ w + 1 <= Len(t)
                /\ t[w + 1] \in Upper

\* /\d+\.\s+[A-Z]/
NumberedRegex(t) == \E i \in 1..Len(t) : NumberedAt(t, i)

\* line.match(/(\d+)\.\s+([A-Z])/): null, or the first capture group of the
\* leftmost match
NumberedLineMatch(line) ==
    IF ~NumberedRegex(line) THEN None
    ELSE LET i == CHOOSE j \in 1..Len(line) :
                      NumberedAt(line, j) /\ \A k \in 1..(j - 1) : ~NumberedAt(line, k)
         IN Some(SubSeq(line, i, RunEnd(line, i, Digit)))

\* one round of the loop over the lines: the keys of the Map found after the
\* line whose match is m
NumberedAdd(found, m) ==
    IF /\ m # None
       /\ \A k \in 1..Len(found) : found[k] # m[1]
       /\ parseInt(m[1]) >= 1
       /\ parseInt(m[1]) <= 20
    THEN Append(found, m[1])
    ELSE found

\* the keys of the Map found, in insertion order, after the loop over the lines
RECURSIVE NumberedFound(_, _)
NumberedFound(ls, found) ==
    IF Len(ls) = 0 THEN found
    ELSE NumberedFound(Tail(ls), NumberedAdd(found, NumberedLineMatch(ls[1])))

\* Array.prototype.sort((a, b) => parseInt(a) - parseInt(b)): stable
RECURSIVE SortByInt(_)
SortByInt(s) ==
    IF Len(s) <= 1 THEN s
    ELSE LET i == CHOOSE j \in 1..Len(s) :
                      /\ \A k \in 1..Len(s) : parseInt(s[j]) <= parseInt(s[k])
                      /\ \A k \in 1..(j - 1) : parseInt(s[k]) > parseInt(s[j])
         IN <<s[i]>> \o SortByInt(SubSeq(s, 1, i - 1) \o Drop(s, i + 1))

\* options.length >= 2 ? options : null
AtLeastTwo(options) == IF Len(options) >= 2 THEN Some(options) ELSE None

\* .map(num => ({ label: num, value: num }))
NumberedOptions(nums) == [k \in 1..Len(nums) |-> Option(nums[k], nums[k])]

NumberedExtract(t) ==
    AtLeastTwo(NumberedOptions(SortByInt(NumberedFound(Split(t), <<>>))))

\* /press\s+enter|Enter to (?:confirm|select)/i
PressEnterRegex(t) ==
    \/ \E i \in 1..Len(t) :
         /\ MatchAt(t, i, Str.press, TRUE)
         /\ LET w == RunEnd(t, i + 5, WhiteSpace)
            IN w >= i + 5 /\ MatchAt(t, w + 1, Str.enter, TRUE)
    \/ Contains(t, Str.enter_to_confirm, TRUE)
    \/ Contains(t, Str.enter_to_select, TRUE)

\* /\(([a-z])\)([a-z]+)/gi matches t at position i
LetterAt(t, i) ==
    /\ i >= 1 /\ i + 3 <= Len(t)
    /\ t[i] = "("
    /\ t[i + 1] \in Letter
    /\ t[i + 2] = ")"
    /\ t[i + 3] \in Letter

LetterRegex(t) == \E i \in 1..Len(t) : LetterAt(t, i)

\* the loop over pattern.exec(text), scanning from position pos
RECURSIVE LetterOptions(_, _)
LetterOptions(t, pos) ==
    IF ~\E i \in pos..Len(t) : LetterAt(t, i) THEN <<>>
    ELSE LET i == CHOOSE j \in pos..Len(t) :
                      LetterAt(t, j) /\ \A k \in pos..(j - 1) : ~LetterAt(t, k)
             e == RunEnd(t, i + 3, Letter)
             letter == toLowerCase(t[i + 1])
             label == <<toUpperCase(letter)>> \o SubSeq(t, i + 3, e)
         IN <<Option(label, <<letter>>)>> \o LetterOptions(t, e + 1)

LetterExtract(t) == AtLeastTwo(LetterOptions(t, 1))

\* text.match(pattern.regex) is not null
PatternMatches(name, t) ==
    CASE name = "yes-no" -> YesNoRegex(t)
      [] name = "yes-no-always" -> YesNoAlwaysRegex(t)
      [] name = "numbered-options" -> NumberedRegex(t)
      [] name = "press-enter" -> PressEnterRegex(t)
      [] name = "letter-in-parens" -> LetterRegex(t)

\* pattern.extract(match, text): null or the options
PatternExtract(name, t) ==
    CASE name = "yes-no" ->
           Some(<<Option(Str.Yes, Str.y), Option(Str.No, Str.n)>>)
      [] name = "yes-no-always" ->
           Some(<<Option(Str.Yes, Str.y), Option(Str.No, Str.n), Option(Str.Always, Str.a)>>)
      [] name = "numbered-options" -> NumberedExtract(t)
      [] name = "press-enter" -> Some(<<Option(Str.OK, <<>>)>>)
      [] name = "letter-in-parens" -> LetterExtract(t)

\* [...patterns].sort((a, b) => b.priority - a.priority): stable, descending
RECURSIVE SortByPriority(_)
SortByPriority(ps) ==
    IF Len(ps) <= 1 THEN ps
    ELSE LET i == CHOOSE j \in 1..Len(ps) :
                      /\ \A k \in 1..Len(ps) : ps[j].priority >= ps[k].priority
                      /\ \A k \in 1..(j - 1) : ps[k].priority < ps[j].priority
         IN <<ps[i]>> \o SortByPriority(SubSeq(ps, 1, i - 1) \o Drop(ps, i + 1))

\* a parser that tries the patterns in the order of the array
sortedPatterns_Unsorted == OPTION_PATTERNS

sortedPatterns == SortByPriority(OPTION_PATTERNS)

\* lines.slice(-50) of parseOptions
ParseMaxLines == 50

\* what one pattern yields on the text: null, or the options it extracts
PatternOptions(name, recentLines) ==
    IF PatternMatches(name, recentLines) THEN PatternExtract(name, recentLines) ELSE None

\* the loop of parseOptions over the patterns ps
RECURSIVE FirstPattern(_, _)
\* one round of that loop, for the pattern ps[1] that yields options
PatternRound(ps, recentLines, options) ==
    IF options # None /\ Len(options[1]) > 0
    THEN Some([prompt |-> Str.SelectOption,
               options |-> options[1],
               patternName |-> ps[1].name])
    ELSE FirstPattern(Tail(ps), recentLines)

FirstPattern(ps, recentLines) ==
    IF Len(ps) = 0 THEN None
    ELSE PatternRound(ps, recentLines, PatternOptions(ps[1].name, recentLines))

\* parseOptions(text): null or {prompt, options, patternName}
parseOptions(text) ==
    IF Len(text) = 0 THEN None
    ELSE FirstPattern(sortedPatterns, Join(LastN(Split(Trim(text)), ParseMaxLines)))

----------------------------------------------------------------------------
(* Trigger detector: watcher.js *)

\* the longest input stripAnsi looks at
StripMaxLen == 100000

\* the characters of the strip-ansi expression: ESC, then any of [ ] ( ) # ; ?,
\* then optional parameters \d{1,4}(;\d{0,4})*, then one final character
AnsiIntro == {"[", "]", "(", ")", "#", ";", "?"}
AnsiFinal ==
    Digit
    \cup {UpperSeq[i] : i \in (1..16) \cup (18..20) \cup {26}}
    \cup {LowerSeq[i] : i \in {3} \cup (6..14) \cup (17..21) \cup {25}}
    \cup {"=", ">", "<", "~"}

Min(a, b) == IF a < b THEN a ELSE b

\* the positions where a match of (;\d{0,4})* that starts at q can end
RECURSIVE AnsiStarEnds(_, _)
AnsiStarEnds(t, q) ==
    {q - 1} \cup
    IF q <= Len(t) /\ t[q] = ";"
    THEN UNION {AnsiStarEnds(t, q + 1 + d) :
                  d \in 0..Min(4, RunEnd(t, q + 1, Digit) - q)}
    ELSE {}

\* the positions where a match of (\d{1,4}(;\d{0,4})*)? that starts at s can end
AnsiParamEnds(t, s) ==
    {s - 1} \cup
    UNION {AnsiStarEnds(t, s + d) : d \in 1..Min(4, RunEnd(t, s, Digit) - s + 1)}

\* the greatest of the positions ends, plus one for the final character; 0 when
\* there is none
AnsiLast(ends) ==
    IF ends = {} THEN 0 ELSE (CHOOSE p \in ends : \A q \in ends : q <= p) + 1

\* the end of the escape sequence that starts at i, or 0 when none does
AnsiEnd(t, i) ==
    IF t[i] # "ESC" THEN 0
    ELSE AnsiLast({p \in AnsiParamEnds(t, RunEnd(t, i + 1, AnsiIntro) + 1) :
                     p + 1 <= Len(t) /\ t[p + 1] \in AnsiFinal})

\* stripAnsiModule(text): the text from position i on without its escape
\* sequences; e is the end of the escape sequence at i, or 0
RECURSIVE StripFrom(_, _)
StripAt(t, i, e) ==
    IF e = 0 THEN <<t[i]>> \o StripFrom(t, i + 1) ELSE StripFrom(t, e + 1)

StripFrom(t, i) == IF i > Len(t) THEN <<>> ELSE StripAt(t, i, AnsiEnd(t, i))

\* Watcher.stripAnsi
stripAnsi(text) == StripFrom(LastN(text, StripMaxLen), 1)

\* String.prototype.charCodeAt
charCodeAt(c) ==
    IF c \in Upper THEN 64 + (CHOOSE i \in 1..26 : UpperSeq[i] = c)
    ELSE IF c \in Lower THEN 96 + (CHOOSE i \in 1..26 : LowerSeq[i] = c)
    ELSE IF c \in Digit THEN 47 + (CHOOSE i \in 1..10 : DigitSeq[i] = c)
    ELSE CASE c = "\t" -> 9 [] c = "\n" -> 10 [] c = "\r" -> 13 [] c = "ESC" -> 27
           [] c = " " -> 32 [] c = "(" -> 40 [] c = ")" -> 41 [] c = "." -> 46
           [] c = "/" -> 47 [] c = ":" -> 58 [] c = ";" -> 59 [] c = ">" -> 62
           [] c = "?" -> 63 [] c = "[" -> 91 [] c = "]" -> 93 [] c = "E9" -> 233
           [] c = "DASH" -> 9548

\* one round of the loop of _hashPrompt, on a 32-bit value kept as two 16-bit
\* halves: (hash << 5) - hash + char, then hash & hash (wraps to 32 bits)
HashRound(h, char) ==
    LET lo == h.lo * 31 + char
        hi == h.hi * 31 + (lo \div 65536)
    IN [hi |-> hi % 65536, lo |-> lo % 65536]

RECURSIVE HashLoop(_, _)
HashLoop(h, str) ==
    IF Len(str) = 0 THEN h ELSE HashLoop(HashRound(h, charCodeAt(str[1])), Tail(str))

HexSeq == <<"0", "1", "2", "3", "4", "5", "6", "7", "8", "9", "a", "b", "c", "d", "e", "f">>

\* Number.prototype.toString(16) of n >= 0
RECURSIVE HexNat(_)
HexNat(n) == IF n < 16 THEN <<HexSeq[n + 1]>> ELSE HexNat(n \div 16) \o <<HexSeq[(n % 16) + 1]>>

\* the four hexadecimal digits of a 16-bit half
Hex4(n) ==
    <<HexSeq[(n \div 4096) + 1], HexSeq[((n \div 256) % 16) + 1],
      HexSeq[((n \div 16) % 16) + 1], HexSeq[(n % 16) + 1]>>

\* hash.toString(16) of the signed 32-bit value with halves h
HashToString(h) ==
    IF h.hi < 32768
    THEN IF h.hi = 0 THEN HexNat(h.lo) ELSE HexNat(h.hi) \o Hex4(h.lo)
    ELSE \* negative: "-" and the magnitude 2^32 - value
         LET mlo == (65536 - h.lo) % 65536
             mhi == 65535 - h.hi + (IF h.lo = 0 THEN 1 ELSE 0)
         IN <<"-">> \o (IF mhi = 0 THEN HexNat(mlo) ELSE HexNat(mhi) \o Hex4(mlo))

\* Watcher._hashPrompt
hashPrompt(prompt) == HashToString(HashLoop([hi |-> 0, lo |-> 0], prompt))

\* the lines a chunk adds to the window: the non-blank lines of the stripped chunk
NewLines(data) == SelectSeq(Split(stripAnsi(data)), LAMBDA l : Len(Trim(l)) > 0)

\* a window that is never cut back to maxLines
WindowAfter_NoEvict(ls, data) == ls \o NewLines(data)

\* this.lines after the push loop and the slice(-maxLines) of Watcher.process
WindowAfter(ls, data) == LastN(ls \o NewLines(data), maxLines)

\* a process that does not compare the hash with the held trigger
IsNewTrigger_NoDedup(triggerHash, held) == TRUE

\* the test of Watcher.process that the match is a new trigger
IsNewTrigger(triggerHash, held) == Some(triggerHash) # held

\* Watcher.process(data) on a watcher with window ls and held trigger lt:
\* the new window, the new held trigger, the return value, and whether the
\* onTrigger callback ran
ProcessOutcome(kept, lt, result, isNew) ==
    [lines |-> kept,
     lastTrigger |-> IF isNew THEN Some(hashPrompt(result[1].prompt)) ELSE lt,
     result |-> result,
     ret |-> IF isNew THEN result ELSE None,
     trig |-> isNew]

ProcessResult(kept, lt, result) ==
    ProcessOutcome(kept, lt, result,
                   result # None /\ IsNewTrigger(hashPrompt(result[1].prompt), lt))

ProcessWindow(kept, lt) == ProcessResult(kept, lt, parseOptions(Join(kept)))

WatcherProcess(ls, lt, data) == ProcessWindow(WindowAfter(ls, data), lt)

\* a reset that clears the window and keeps the held trigger
WatcherReset_KeepTrigger(ls, lt) == [lines |-> <<>>, lastTrigger |-> lt]

\* Watcher.reset()
WatcherReset(ls, lt) == [lines |-> <<>>, lastTrigger |-> None]

\* Watcher.getLastTrigger(): null or the options parsed from the current window
getLastTrigger(ls, lt) == IF lt = None THEN None ELSE parseOptions(Join(ls))

\* the entries of the history
ProcessEntry(data, r) ==
    [op |-> "process", data |-> data, res |-> r.result, ret |-> r.ret, trig |-> r.trig]
ResetEntry == [op |-> "reset", data |-> <<>>, res |-> None, ret |-> None, trig |-> FALSE]

\* the debounce window of the Notifier, in seconds
debounceSeconds == 30

\* new Notifier({topic, ...})
NewNotifier(topic) ==
    [topic |-> topic,
     lastNotificationHash |-> None,
     lastNotificationTime |-> 0,
     stats |-> [sent |-> 0, debounced |-> 0, failed |-> 0]]

\* Notifier._hashString(str): the loop of Watcher._hashPrompt
hashString(str) == HashToString(HashLoop([hi |-> 0, lo |-> 0], str))

\* the debounce test of Notifier.notify at time t
IsDebounced(promptHash, t) ==
    /\ Some(promptHash) = notifier.lastNotificationHash
    /\ t - notifier.lastNotificationTime < debounceSeconds * 1000

\* the history of the Notifier after entry, kept while a topic is configured
Logged(entry) == IF notifier.topic = None THEN nlog ELSE Append(nlog, entry)

NotifyEntry(prompt, force, reason) ==
    [op |-> "notify", prompt |-> prompt, force |-> force, at |-> now, reason |-> reason]

\* Notifier.notify({prompt, force}) up to its await: without a topic it returns
\* 'no_topic'; a debounced call returns 'debounced'; any other call issues the
\* request to the push relay and waits for the response
notify(prompt, force) ==
    IF notifier.topic = None
    THEN UNCHANGED notifierVars
    ELSE IF ~force /\ IsDebounced(hashString(prompt), now)
    THEN /\ notifier' = [notifier EXCEPT !.stats.debounced = @ + 1]
         /\ fetches' = fetches
         /\ nlog' = Logged(NotifyEntry(prompt, force, "debounced"))
    ELSE /\ notifier' = notifier
         /\ fetches' = Append(fetches, [promptHash |-> hashString(prompt), now |-> now,
                                        prompt |-> prompt, force |-> force])
         /\ nlog' = Logged(NotifyEntry(prompt, force, "fetch"))

\* Notifier.notify after its await: the response of the push relay to the
\* request f, or the failure of the request
Responded(f, outcome) ==
    IF outcome = "ok"
    THEN [notifier EXCEPT !.lastNotificationHash = Some(f.promptHash),
                          !.lastNotificationTime = f.now,
                          !.stats.sent = @ + 1]
    ELSE [notifier EXCEPT !.stats.failed = @ + 1]

\* Notifier.resetDebounce()
resetDebounce ==
    /\ notifier' = [notifier EXCEPT !.lastNotificationHash = None,
                                    !.lastNotificationTime = 0]
    /\ fetches' = fetches
    /\ nlog' = Logged([op |-> "reset", at |-> now])

\* the onTrigger callback the server gives the Watcher; sendWebPush has no
\* subscriber
onTrigger(r) == IF r.trig THEN notify(r.result[1].prompt, FALSE) ELSE UNCHANGED notifierVars

\* the Watcher after a call whose outcome is r
WatcherBecomes(r) ==
    /\ lines' = r.lines
    /\ lastTrigger' = r.lastTrigger

\* a call of watcher.process(data) with outcome r: the onTrigger callback runs
\* when r.trig
ProcessDone(data, r) ==
    /\ WatcherBecomes(r)
    /\ nTrigger' = nTrigger + (IF r.trig THEN 1 ELSE 0)
    /\ onTrigger(r)
    /\ wlog' = Append(wlog, ProcessEntry(data, r))

ProcessStep(data) == ProcessDone(data, WatcherProcess(lines, lastTrigger, data))

\* a call of watcher.reset()
ResetStep ==
    /\ WatcherBecomes(WatcherReset(lines, lastTrigger))
    /\ nTrigger' = nTrigger
    /\ wlog' = Append(wlog, ResetEntry)

\* the number of entries of the history with operation op
RECURSIVE CountOp(_, _)
CountOp(log, op) ==
    IF Len(log) = 0 THEN 0
    ELSE (IF log[1].op = op THEN 1 ELSE 0) + CountOp(Tail(log), op)


----------------------------------------------------------------------------
(* Session manager: class PTYManager of option-parser.js *)

\* the UTF-8 bytes of a character; a byte is written as the character itself
\* when it is ASCII and as two hexadecimal digits otherwise
Utf8(c) ==
    CASE c = "E9" -> <<"C3", "A9">>
      [] c = "DASH" -> <<"E2", "95", "8C">>
      [] c = "FFFD" -> <<"EF", "BF", "BD">>
      [] OTHER -> <<c>>

HighBytes == {"C3", "A9", "E2", "95", "8C", "EF", "BF", "BD"}

\* Buffer.from(data): the UTF-8 encoding of a string
RECURSIVE BufferFrom(_)
BufferFrom(data) == IF Len(data) = 0 THEN <<>> ELSE Utf8(data[1]) \o BufferFrom(Tail(data))

\* Buffer.prototype.toString('utf8'): bytes that are no encoding of a character
\* decode to U+FFFD, one per maximal ill-formed part
RECURSIVE BufferToString(_)
BufferToString(b) ==
    IF Len(b) = 0 THEN <<>>
    ELSE IF MatchAt(b, 1, <<"C3", "A9">>, FALSE) THEN <<"E9">> \o BufferToString(Drop(b, 3))
    ELSE IF MatchAt(b, 1, <<"E2", "95", "8C">>, FALSE) THEN <<"DASH">> \o BufferToString(Drop(b, 4))
    ELSE IF MatchAt(b, 1, <<"EF", "BF", "BD">>, FALSE) THEN <<"FFFD">> \o BufferToString(Drop(b, 4))
    ELSE IF MatchAt(b, 1, <<"E2", "95">>, FALSE) \/ MatchAt(b, 1, <<"EF", "BF">>, FALSE)
         THEN <<"FFFD">> \o BufferToString(Drop(b, 3))
    ELSE IF b[1] \in HighBytes THEN <<"FFFD">> \o BufferToString(Tail(b))
    ELSE <<b[1]>> \o BufferToString(Tail(b))

\* a buffer that grows without dropping its oldest bytes
appendToBuffer_NoEviction(buf, data) == buf \o BufferFrom(data)

\* PTYManager._appendToBuffer: this.buffer after the call
appendToBuffer(buf, data) == LastN(buf \o BufferFrom(data), bufferSize)

\* PTYManager.getBuffer()
getBuffer(buf) == BufferToString(buf)

\* PTYManager.getState(), without the terminal geometry
getState(isRunning, code, buf) ==
    [running |-> isRunning, exitCode |-> code, bufferLength |-> Len(buf)]

\* the entries of the history of the PTYManager
SpawnEntry == [op |-> "spawn", data |-> <<>>]
DataEntry(data) == [op |-> "data", data |-> data]

----------------------------------------------------------------------------
(* server.js: messages to the clients *)

Clients == {1, 2}
\* getClientIp(req) of each connection
IpOf(c) == "ip1"
Ips == {IpOf(c) : c \in Clients}
Tokens == {"t1"}

OPEN == "open"
CLOSING == "closing"

StateMsg(isRunning, code, buf, ls, lt) ==
    [type |-> "state", pty |-> getState(isRunning, code, buf),
     buffer |-> getBuffer(buf), lastTrigger |-> getLastTrigger(ls, lt)]
OutputMsg(data) == [type |-> "output", data |-> data]
OptionsMsg(result) ==
    [type |-> "options", prompt |-> result.prompt, options |-> result.options,
     patternName |-> result.patternName]
HideOptionsMsg == [type |-> "hideOptions"]
StartedMsg == [type |-> "started"]
ExitMsg(code) == [type |-> "exit", exitCode |-> code]
ErrorMsg(message) == [type |-> "error", message |-> message]

\* ws.send(message) on connection c: nothing is sent on a socket that is not open
SendTo(r, c, msgs) ==
    [d \in Clients |-> IF d = c /\ ws[c].state = OPEN THEN r[d] \o msgs ELSE r[d]]

\* a broadcast that gives up at the first live connection that is not open
Broadcast_StopsAtNotOpen(r, msgs) ==
    [d \in Clients |->
        IF d \in clients /\ \A e \in clients : e <= d => ws[e].state = OPEN
        THEN r[d] \o msgs ELSE r[d]]

\* a broadcast that delivers every message twice
Broadcast_Twice(r, msgs) ==
    [d \in Clients |->
        IF d \in clients /\ ws[d].state = OPEN THEN r[d] \o msgs \o msgs ELSE r[d]]

\* broadcast(message), for each of msgs in turn: to every live connection whose
\* readyState is OPEN
Broadcast(r, msgs) ==
    [d \in Clients |-> IF d \in clients /\ ws[d].state = OPEN THEN r[d] \o msgs ELSE r[d]]

\* the messages of broadcastOutput that show the trigger before the output
OutputMessages_TriggerFirst(data, ret) ==
    (IF ret # None THEN <<OptionsMsg(ret[1])>> ELSE <<>>) \o <<OutputMsg(data)>>

\* the messages broadcastOutput(data) broadcasts, in order, when watcher.process
\* returned ret
OutputMessages(data, ret) ==
    <<OutputMsg(data)>> \o (IF ret # None THEN <<OptionsMsg(ret[1])>> ELSE <<>>)

\* broadcastOutput(data), r being the outcome of watcher.process(data), followed
\* by the broadcast of the messages after
BroadcastOutputDone(data, r, after) ==
    /\ ProcessDone(data, r)
    /\ recv' = Broadcast(recv, OutputMessages(data, r.ret) \o after)

broadcastOutput(data, after) ==
    BroadcastOutputDone(data, WatcherProcess(lines, lastTrigger, data), after)

----------------------------------------------------------------------------
(* server.js: configuration and initial state *)

SESSION_DURATION == 24 * 60 * 60 * 1000
WS_RATE_LIMIT == 10
WS_WINDOW == 60 * 1000
MAX_VIOLATIONS == 5
BAN_DURATION == 5 * 60 * 1000
MESSAGE_RATE_LIMIT == 30
MESSAGE_WINDOW == 1000
\* the byte ceiling of an inbound message
MaxPayload == 65536

Event(kind, c, type, data) == [kind |-> kind, client |-> c, type |-> type, data |-> data]

NoSocket == [state |-> "none", code |-> 0, violations |-> 0, stamps |-> <<>>]

\* the state after the server is loaded with config.ntfy.topic = topic
ServerInit(topic) ==
    /\ lines = <<>>
    /\ lastTrigger = None
    /\ nTrigger = 0
    /\ wlog = <<>>
    /\ running = FALSE
    /\ exitCode = None
    /\ buffer = <<>>
    /\ pty = None
    /\ procs = {}
    /\ nSpawned = 0
    /\ signaled = {}
    /\ written = <<>>
    /\ stream = <<>>
    /\ mockMode \in BOOLEAN
    /\ themeSent = FALSE
    /\ themeTimers = 0
    /\ mockInputHandler = None
    /\ mockTimers = <<>>
    /\ clients = {}
    /\ ws = [c \in Clients |-> NoSocket]
    /\ recv = [c \in Clients |-> <<>>]
    /\ wsConnections = [ip \in Ips |-> <<>>]
    /\ bannedIps = [ip \in Ips |-> None]
    /\ lastBan = [ip \in Ips |-> None]
    /\ sessions = [t \in Tokens |-> Some(0)]
    /\ admitted = <<>>
    /\ now = 0
    /\ nTicks = 0
    /\ crashed = FALSE
    /\ nMsgs = 0
    /\ patterns = [OPTION_PATTERNS |-> OPTION_PATTERNS, sortedPatterns |-> sortedPatterns]
    /\ registered = <<>>
    /\ notifier = NewNotifier(topic)
    /\ fetches = <<>>
    /\ nlog = <<>>
    /\ evt = Event("init", 0, "", <<>>)

\* the state after the server is loaded without a topic for the push relay
Init == ServerInit(None)

----------------------------------------------------------------------------
(* server.js: the mock sequence.  The texts keep their line breaks, escape   *)
(* sequences and prompts; each run of plain words is cut to one letter.      *)

MockText(text) == [text |-> text, waitForInput |-> FALSE]
MockWait == [text |-> <<>>, waitForInput |-> TRUE]

mockSequence ==
    << MockText(<<"W", "\r", "\n">>),
       MockText(<<"\r", "\n", "A", "\r", "\n">>),
       MockText(<<"\r", "\n", "I", "\r", "\n">>),
       MockText(<<"\r", "\n", "ESC", "[", "1", ";", "3", "3", "m", "D", "?", " ",
                  "(", "y", "/", "n", ")", "ESC", "[", "0", "m", " ">>),
       MockWait >>

mockSequenceYes ==
    << MockText(<<"\r", "\n", "\r", "\n", "P", "\r", "\n">>),
       MockText(<<"\r", "\n", "M", "\r", "\n">>),
       MockText(<<"M", "\r", "\n">>),
       MockText(<<"M", "\r", "\n">>),
       MockText(<<"\r", "\n", "ESC", "[", "1", ";", "3", "2", "m", "A", "ESC", "[", "0", "m",
                  "\r", "\n">>),
       MockText(<<"\r", "\n", "S", ":", "\r", "\n", "1", ".", " ", "R", "\r", "\n",
                  "2", ".", " ", "C", "\r", "\n", "3", ".", " ", "R", "\r", "\n",
                  "\r", "\n", ">", " ">>) >>

mockSequenceNo ==
    << MockText(<<"\r", "\n", "\r", "\n", "O", "\r", "\n">>),
       MockText(<<"\r", "\n", "W", " ", "(", "a", ")", "p", "p", "l", "y", " ",
                  "(", "r", ")", "e", "j", "e", "c", "t", " ",
                  "(", "e", ")", "d", "i", "t", "?", " ">>) >>

SequenceOf(name) ==
    CASE name = "main" -> mockSequence
      [] name = "yes" -> mockSequenceYes
      [] name = "no" -> mockSequenceNo

\* item.onInput(input): the sequence that follows the answer
onInput(input) ==
    IF Len(input) > 0 /\ toLowerCase(input[1]) = "y" THEN "yes" ELSE "no"

\* runMockSequence(sequence, index), index counted from 1: the pending timers and
\* the input handler after the call
runMockSequence(timers, handler, name, index) ==
    IF index > Len(SequenceOf(name))
    THEN [timers |-> timers, handler |-> handler]
    ELSE IF SequenceOf(name)[index].waitForInput
    THEN [timers |-> timers, handler |-> Some(name)]
    ELSE [timers |-> Append(timers, [seq |-> name, index |-> index]), handler |-> handler]

MockBecomes(m) ==
    /\ mockTimers' = m.timers
    /\ mockInputHandler' = m.handler

\* the sequence s without its element at position i
RemoveAt(s, i) == SubSeq(s, 1, i - 1) \o Drop(s, i + 1)

----------------------------------------------------------------------------
(* server.js and PTYManager: the handlers *)

\* PTYManager.isRunning()
isRunning == running

\* the parts of PTYManager.spawn after pty.spawn returned the new subprocess
SpawnOk ==
    /\ nSpawned < MaxSpawns
    /\ pty' = Some(nSpawned + 1)
    /\ running' = TRUE
    /\ exitCode' = None
    /\ buffer' = <<>>
    /\ procs' = procs \cup {nSpawned + 1}
    /\ nSpawned' = nSpawned + 1
    /\ stream' = Append(stream, SpawnEntry)
    /\ UNCHANGED <<signaled, written>>

\* a write that only looks for an attached subprocess
CanWrite_Attached == pty # None

\* PTYManager.write(data): throws unless a subprocess is attached and running
CanWrite == pty # None /\ running
Write(data) == written' = Append(written, <<pty[1], data>>)

\* PTYManager.kill(): the running flag once the subprocess was signaled
RunningAfterKill == FALSE

\* PTYManager.kill()
kill ==
    IF pty # None /\ running
    THEN /\ signaled' = signaled \cup {pty[1]}
         /\ running' = RunningAfterKill
         /\ UNCHANGED <<exitCode, buffer, pty, procs, nSpawned, written, stream>>
    ELSE UNCHANGED ptyVars

\* this.pty.onData of PTYManager.spawn, up to the emit
onData(data) ==
    /\ buffer' = appendToBuffer(buffer, data)
    /\ stream' = Append(stream, DataEntry(data))
    /\ UNCHANGED <<running, exitCode, pty, procs, nSpawned, signaled>>

\* this.pty.onExit of PTYManager.spawn, up to the emit
onExit(p, code) ==
    /\ procs' = procs \ {p}
    /\ running' = FALSE
    /\ exitCode' = Some(code)
    /\ UNCHANGED <<buffer, pty, nSpawned, signaled, stream>>

\* startClaude, when a session is running
StartAlreadyRunning ==
    /\ recv' = Broadcast(recv, <<ErrorMsg("Claude Code is already running")>>)
    /\ UNCHANGED <<watcherVars, ptyVars, themeVars, mockVars>>

\* startClaude, when the working directory cannot be created
StartMkdirFails ==
    /\ ResetStep
    /\ recv' = Broadcast(recv, <<ErrorMsg("Failed to create directory")>>)
    /\ UNCHANGED <<ptyVars, themeVars, mockVars>>

\* startClaude in mock mode: startMockMode
startMockMode ==
    /\ ResetStep
    /\ recv' = Broadcast(recv, <<StartedMsg>>)
    /\ MockBecomes(runMockSequence(mockTimers, mockInputHandler, "main", 1))
    /\ UNCHANGED <<ptyVars, themeVars>>

\* startClaude, when ptyManager.spawn succeeds
StartSpawned ==
    /\ ResetStep
    /\ SpawnOk
    /\ recv' = Broadcast(recv, <<StartedMsg>>)
    /\ UNCHANGED <<themeVars, mockVars>>

\* a spawn that marks the session running before pty.spawn throws
StartSpawnFails_Running ==
    /\ ResetStep
    /\ recv' = Broadcast(recv, <<ErrorMsg("spawn failed"),
                                 ErrorMsg("Failed to start: spawn failed")>>)
    /\ running' = TRUE
    /\ UNCHANGED <<exitCode, buffer, pty, procs, nSpawned, signaled, written, stream,
                   themeVars, mockVars>>

\* startClaude, when pty.spawn throws: PTYManager emits 'error' and rethrows
StartSpawnFails ==
    /\ ResetStep
    /\ recv' = Broadcast(recv, <<ErrorMsg("spawn failed"),
                                 ErrorMsg("Failed to start: spawn failed")>>)
    /\ UNCHANGED <<ptyVars, themeVars, mockVars>>

\* a startClaude that resets the Watcher before it looks at the running flag
startClaude_ResetFirst ==
    IF isRunning
    THEN /\ ResetStep
         /\ recv' = Broadcast(recv, <<ErrorMsg("Claude Code is already running")>>)
         /\ UNCHANGED <<ptyVars, themeVars, mockVars>>
    ELSE \/ StartMkdirFails
         \/ mockMode /\ startMockMode
         \/ ~mockMode /\ StartSpawned
         \/ ~mockMode /\ StartSpawnFails

\* startClaude(extraArgs, customCwd)
startClaude ==
    IF isRunning
    THEN StartAlreadyRunning
    ELSE \/ StartMkdirFails
         \/ mockMode /\ startMockMode
         \/ ~mockMode /\ StartSpawned
         \/ ~mockMode /\ StartSpawnFails

\* an input handler that resets the Watcher on a carriage return and tells no
\* client
HandleInput_NoHide(data) ==
    IF isRunning
    THEN /\ Write(data)
         /\ UNCHANGED <<running, exitCode, buffer, pty, procs, nSpawned, signaled, stream>>
         /\ IF \E i \in 1..Len(data) : data[i] = "\r"
            THEN ResetStep /\ recv' = recv
            ELSE UNCHANGED <<watcherVars, recv>>
         /\ resetDebounce
         /\ UNCHANGED <<themeVars, mockVars>>
    ELSE UNCHANGED <<watcherVars, ptyVars, themeVars, mockVars, recv, notifierVars>>

\* handleClientMessage, case 'input'
HandleInput(data) ==
    IF isRunning
    THEN /\ Write(data)
         /\ UNCHANGED <<running, exitCode, buffer, pty, procs, nSpawned, signaled, stream>>
         /\ IF \E i \in 1..Len(data) : data[i] = "\r"
            THEN ResetStep /\ recv' = Broadcast(recv, <<HideOptionsMsg>>)
            ELSE UNCHANGED <<watcherVars, recv>>
         /\ resetDebounce
         /\ UNCHANGED <<themeVars, mockVars>>
    ELSE UNCHANGED <<watcherVars, ptyVars, themeVars, mockVars, recv, notifierVars>>

\* the replacement of handleClientMessage, for an input while the mock sequence
\* waits for one
MockInput(data) ==
    /\ MockBecomes(runMockSequence(mockTimers, None, onInput(data), 1))
    /\ broadcastOutput(data, <<>>)
    /\ UNCHANGED <<ptyVars, themeVars>>

\* handleClientMessage(ws, data), as replaced at the end of server.js
handleClientMessage(c, m) ==
    IF mockMode /\ m.type = "input" /\ mockInputHandler # None
    THEN MockInput(m.data)
    ELSE CASE m.type = "start" -> startClaude /\ UNCHANGED notifierVars
           [] m.type = "input" -> HandleInput(m.data)
           [] m.type = "stop" ->
                kill /\ UNCHANGED <<watcherVars, themeVars, mockVars, recv, notifierVars>>
           [] m.type = "getState" ->
                /\ recv' = SendTo(recv, c, <<StateMsg(running, exitCode, buffer,
                                                      lines, lastTrigger)>>)
                /\ UNCHANGED <<watcherVars, ptyVars, themeVars, mockVars, notifierVars>>
           [] OTHER -> UNCHANGED <<watcherVars, ptyVars, themeVars, mockVars, recv, notifierVars>>

\* ws.close(code) on a socket
Close(w, code) == IF w.state = OPEN THEN [w EXCEPT !.state = CLOSING, !.code = code] ELSE w

\* ws.messageTimestamps.filter(t => now - t < MESSAGE_WINDOW)
RecentStamps(c) == SelectSeq(ws[c].stamps, LAMBDA t : now - t < MESSAGE_WINDOW)

\* a size check that counts the oversized message as a violation
Oversized_Counted(c) ==
    /\ ws' = [ws EXCEPT ![c] = Close([@ EXCEPT !.violations = @ + 1], 1009)]
    /\ UNCHANGED <<bannedIps, lastBan, watcherVars, ptyVars, themeVars, mockVars, recv, crashed, notifierVars>>

\* ws.on('message'): a message over the byte ceiling
Oversized(c) ==
    /\ ws' = [ws EXCEPT ![c] = Close(@, 1009)]
    /\ UNCHANGED <<bannedIps, lastBan, watcherVars, ptyVars, themeVars, mockVars, recv, crashed, notifierVars>>

\* a rate check whose ban closes every connection of the banned address
RateLimited_ClosesAddress(c) ==
    /\ IF ws[c].violations + 1 >= MAX_VIOLATIONS
       THEN /\ bannedIps' = [bannedIps EXCEPT ![IpOf(c)] = Some(now + BAN_DURATION)]
            /\ lastBan' = [lastBan EXCEPT ![IpOf(c)] = Some(now + BAN_DURATION)]
            /\ ws' = [d \in Clients |->
                        IF d = c
                        THEN Close([ws[c] EXCEPT !.stamps = RecentStamps(c),
                                                 !.violations = @ + 1], 4429)
                        ELSE IF IpOf(d) = IpOf(c) THEN Close(ws[d], 4429) ELSE ws[d]]
       ELSE /\ UNCHANGED <<bannedIps, lastBan>>
            /\ ws' = [ws EXCEPT ![c].stamps = RecentStamps(c), ![c].violations = @ + 1]
    /\ UNCHANGED <<watcherVars, ptyVars, themeVars, mockVars, recv, crashed, notifierVars>>

\* a rate check that stamps the message before testing the ceiling
RateLimited_Stamped(c) ==
    /\ IF ws[c].violations + 1 >= MAX_VIOLATIONS
       THEN /\ bannedIps' = [bannedIps EXCEPT ![IpOf(c)] = Some(now + BAN_DURATION)]
            /\ lastBan' = [lastBan EXCEPT ![IpOf(c)] = Some(now + BAN_DURATION)]
            /\ ws' = [ws EXCEPT ![c] = Close([@ EXCEPT !.stamps = Append(RecentStamps(c), now),
                                                       !.violations = @ + 1], 4429)]
       ELSE /\ UNCHANGED <<bannedIps, lastBan>>
            /\ ws' = [ws EXCEPT ![c].stamps = Append(RecentStamps(c), now),
                                ![c].violations = @ + 1]
    /\ UNCHANGED <<watcherVars, ptyVars, themeVars, mockVars, recv, crashed, notifierVars>>

\* ws.on('message'): a message over the rate ceiling
RateLimited(c) ==
    /\ IF ws[c].violations + 1 >= MAX_VIOLATIONS
       THEN /\ bannedIps' = [bannedIps EXCEPT ![IpOf(c)] = Some(now + BAN_DURATION)]
            /\ lastBan' = [lastBan EXCEPT ![IpOf(c)] = Some(now + BAN_DURATION)]
            /\ ws' = [ws EXCEPT ![c] = Close([@ EXCEPT !.stamps = RecentStamps(c),
                                                       !.violations = @ + 1], 4429)]
       ELSE /\ UNCHANGED <<bannedIps, lastBan>>
            /\ ws' = [ws EXCEPT ![c].stamps = RecentStamps(c), ![c].violations = @ + 1]
    /\ UNCHANGED <<watcherVars, ptyVars, themeVars, mockVars, recv, crashed, notifierVars>>

\* the value of a property the message does not have
undefined == <<"undefined">>

\* the message parses, and handleClientMessage throws on it: an input without
\* data reaches input.toLowerCase() of the mock sequence, or the write and
\* data.data.includes of a running session
Raises(m) ==
    /\ m.json
    /\ m.type = "input"
    /\ m.data = undefined
    /\ (mockMode /\ mockInputHandler # None) \/ isRunning

\* a message handler without the try block around JSON.parse and
\* handleClientMessage
Accepted_Uncaught(c, m) ==
    /\ ws' = [ws EXCEPT ![c].stamps = Append(RecentStamps(c), now)]
    /\ UNCHANGED <<bannedIps, lastBan>>
    /\ IF ~m.json \/ Raises(m)
       THEN /\ crashed' = TRUE
            /\ mockInputHandler' = IF m.json /\ mockMode THEN None ELSE mockInputHandler
            /\ UNCHANGED <<watcherVars, ptyVars, themeVars, mockTimers, recv, notifierVars>>
       ELSE handleClientMessage(c, m) /\ crashed' = crashed

\* ws.on('message'): a message within the limits; the error of JSON.parse or of
\* handleClientMessage is caught and logged, after mockInputHandler was cleared
Accepted(c, m) ==
    /\ ws' = [ws EXCEPT ![c].stamps = Append(RecentStamps(c), now)]
    /\ UNCHANGED <<bannedIps, lastBan, crashed>>
    /\ IF ~m.json \/ Raises(m)
       THEN /\ mockInputHandler' = IF m.json /\ mockMode THEN None ELSE mockInputHandler
            /\ UNCHANGED <<watcherVars, ptyVars, themeVars, mockTimers, recv, notifierVars>>
       ELSE handleClientMessage(c, m)

Inbound(type, data) == [type |-> type, data |-> data, size |-> Len(data) + 20, json |-> TRUE]

\* the inbound messages of the clients
Messages ==
    {Inbound("start", <<>>), Inbound("stop", <<>>), Inbound("getState", <<>>),
     Inbound("input", <<"y", "\r">>), Inbound("input", <<"y">>)}

\* ws.on('message')
onMessage(c, m) ==
    /\ ~crashed
    /\ ws[c].state \in {OPEN, CLOSING}
    /\ nMsgs' = nMsgs + 1
    /\ evt' = [kind |-> "message", client |-> c, type |-> m.type, data |-> m.data,
               size |-> m.size, json |-> m.json]
    /\ UNCHANGED <<mockMode, patternVars, timeVars, clients, wsConnections, admitted, sessions>>
    /\ IF m.size > MaxPayload THEN Oversized(c)
       ELSE IF Len(RecentStamps(c)) >= MESSAGE_RATE_LIMIT THEN RateLimited(c)
       ELSE Accepted(c, m)

\* a message of a client, among the first MaxMsgs
Message(c, m) == nMsgs < MaxMsgs /\ onMessage(c, m)

\* a session check that forgets the expiry
validateSession_NoExpiry(tok) == tok \in Tokens /\ sessions[tok] # None

\* validateSession(token)
validateSession(tok) ==
    /\ tok \in Tokens
    /\ sessions[tok] # None
    /\ ~(now - sessions[tok][1] > SESSION_DURATION)

\* sessions after validateSession(token): an expired session is deleted
SessionsAfterValidate(tok) ==
    IF tok \in Tokens /\ sessions[tok] # None /\ now - sessions[tok][1] > SESSION_DURATION
    THEN [sessions EXCEPT ![tok] = None]
    ELSE sessions

\* a connection window of the length of the message window
RecentConnections_MessageWindow(ip) ==
    SelectSeq(wsConnections[ip], LAMBDA t : now - t < MESSAGE_WINDOW)

\* (wsConnections.get(ip) || []).filter(t => now - t < WS_WINDOW)
RecentConnections(ip) == SelectSeq(wsConnections[ip], LAMBDA t : now - t < WS_WINDOW)

Rejected(c, code) == ws' = [ws EXCEPT ![c] = [@ EXCEPT !.state = "rejected", !.code = code]]

\* a ban that lasts until the sweep removes it
IsBanned_UntilSwept(ip) == bannedIps[ip] # None

\* bannedIps.has(ip) && Date.now() < bannedIps.get(ip)
IsBanned(ip) == bannedIps[ip] # None /\ now < bannedIps[ip][1]

\* the credentials a connection attempt may present: a token, an unknown token
\* and no token
Credentials == Tokens \cup {"bad", ""}

\* wss.on('connection')
Connect(c, tok) ==
    /\ ~crashed
    /\ ws[c].state = "none"
    /\ evt' = Event("connect", c, tok, <<>>)
    /\ UNCHANGED <<watcherVars, ptyVars, themeVars, mockVars, mockMode, patternVars, notifierVars, timeVars, crashed,
                   nMsgs, bannedIps, lastBan>>
    /\ IF IsBanned(IpOf(c))
       THEN Rejected(c, 4403) /\ UNCHANGED <<clients, recv, wsConnections, admitted, sessions>>
       ELSE /\ sessions' = SessionsAfterValidate(tok)
            /\ IF ~validateSession(tok)
               THEN Rejected(c, 4001) /\ UNCHANGED <<clients, recv, wsConnections, admitted>>
               ELSE IF Len(RecentConnections(IpOf(c))) >= WS_RATE_LIMIT
               THEN Rejected(c, 4029) /\ UNCHANGED <<clients, recv, wsConnections, admitted>>
               ELSE /\ wsConnections' = [wsConnections EXCEPT ![IpOf(c)] =
                                            Append(RecentConnections(IpOf(c)), now)]
                    /\ admitted' = Append(admitted, <<IpOf(c), now>>)
                    /\ clients' = clients \cup {c}
                    /\ ws' = [ws EXCEPT ![c] = [state |-> OPEN, code |-> 0,
                                                violations |-> 0, stamps |-> <<>>]]
                    /\ recv' = [recv EXCEPT ![c] =
                                  <<StateMsg(running, exitCode, buffer, lines, lastTrigger)>>]

\* a close handler that lifts the ban of the connection's address
Disconnect_LiftsBan(c) ==
    /\ ~crashed
    /\ ws[c].state \in {OPEN, CLOSING}
    /\ ws' = [ws EXCEPT ![c].state = "closed"]
    /\ clients' = clients \ {c}
    /\ bannedIps' = [bannedIps EXCEPT ![IpOf(c)] = None]
    /\ evt' = Event("disconnect", c, "", <<>>)
    /\ UNCHANGED <<watcherVars, ptyVars, themeVars, mockVars, mockMode, patternVars, notifierVars, timeVars, crashed,
                   nMsgs, recv, wsConnections, sessions, admitted, lastBan>>

\* ws.on('close') and ws.on('error')
Disconnect(c) ==
    /\ ~crashed
    /\ ws[c].state \in {OPEN, CLOSING}
    /\ ws' = [ws EXCEPT ![c].state = "closed"]
    /\ clients' = clients \ {c}
    /\ evt' = Event("disconnect", c, "", <<>>)
    /\ UNCHANGED <<watcherVars, ptyVars, themeVars, mockVars, mockMode, patternVars, notifierVars, timeVars, crashed,
                   nMsgs, recv, accessVars>>

Str_dashes == <<"DASH", "DASH", "DASH">>

\* ptyManager.on('data'), after broadcastOutput: the automatic theme selection
ThemeSelection(data) ==
    IF ~themeSent /\ Contains(data, Str_dashes, FALSE)
    THEN /\ themeSent' = TRUE
         /\ IF CanWrite
            THEN Write(<<"1">>) /\ themeTimers' = themeTimers + 1 /\ crashed' = crashed
            ELSE crashed' = TRUE /\ UNCHANGED <<written, themeTimers>>
    ELSE UNCHANGED <<themeSent, themeTimers, written, crashed>>

\* texts a subprocess or a caller of the Watcher emits
Chunk ==
    [yn |-> <<"(", "y", "/", "n", ")">>,
     yn_head |-> <<"(", "y", "/">>,
     yn_tail |-> <<"n", ")">>,
     yn_ansi |-> <<"ESC", "[", "1", ";", "3", "3", "m",
                 "(", "y", "/", "n", ")", "ESC", "[", "0", "m">>,
     menu |-> <<"1", ".", " ", "A", "\r", "\n", "2", ".", " ", "B">>,
     letters |-> <<"(", "a", ")", "b", " ", "(", "c", ")", "d">>,
     text |-> <<"o", "k", "\r", "\n">>,
     theme |-> <<"DASH", "DASH", "DASH">>,
     accent |-> <<"E9", "\n">>]
ServerChunks == {Chunk.yn, Chunk.theme, Chunk.accent}

\* this.pty.onData of PTYManager.spawn, with ptyManager.on('data') of server.js
PtyData(p, data) ==
    /\ ~crashed
    /\ p \in procs
    /\ CountOp(stream, "data") < MaxData
    /\ onData(data)
    /\ broadcastOutput(data, <<>>)
    /\ ThemeSelection(data)
    /\ evt' = Event("data", p, "", data)
    /\ UNCHANGED <<mockMode, patternVars, mockVars, clients, ws, accessVars, timeVars, nMsgs>>

\* the timer of the theme selection
ThemeTimer ==
    /\ ~crashed
    /\ themeTimers > 0
    /\ themeTimers' = themeTimers - 1
    /\ IF isRunning THEN Write(<<"\r">>) ELSE UNCHANGED written
    /\ evt' = Event("themeTimer", 0, "", <<>>)
    /\ UNCHANGED <<watcherVars, running, exitCode, buffer, pty, procs, nSpawned, signaled,
                   stream, themeSent, mockVars, mockMode, patternVars, notifierVars, clients, ws, recv, accessVars,
                   timeVars, crashed, nMsgs>>

ExitCodes == {0, 1}

\* this.pty.onExit of PTYManager.spawn, with ptyManager.on('exit') of server.js
PtyExit(p, code) ==
    /\ ~crashed
    /\ p \in procs
    /\ onExit(p, code)
    /\ themeSent' = FALSE
    /\ recv' = Broadcast(recv, <<ExitMsg(Some(code))>>)
    /\ evt' = Event("exit", p, "", <<>>)
    /\ UNCHANGED <<watcherVars, written, themeTimers, mockVars, mockMode, patternVars, notifierVars, clients, ws,
                   accessVars, timeVars, crashed, nMsgs>>

\* a timer of runMockSequence fires: the item is output and the next one scheduled
MockTimer(i) ==
    /\ ~crashed
    /\ i \in 1..Len(mockTimers)
    /\ CountOp(wlog, "process") < MaxMockSteps
    /\ broadcastOutput(SequenceOf(mockTimers[i].seq)[mockTimers[i].index].text, <<>>)
    /\ MockBecomes(runMockSequence(RemoveAt(mockTimers, i), mockInputHandler,
                                   mockTimers[i].seq, mockTimers[i].index + 1))
    /\ evt' = Event("mockTimer", 0, mockTimers[i].seq, <<>>)
    /\ UNCHANGED <<ptyVars, themeVars, mockMode, patternVars, clients, ws, accessVars, timeVars, crashed, nMsgs>>

Next ==
    \/ \E c \in Clients, tok \in Credentials : Connect(c, tok)
    \/ \E c \in Clients : Disconnect(c)
    \/ \E c \in Clients, m \in Messages : Message(c, m)
    \/ \E p \in 1..MaxSpawns, data \in ServerChunks : PtyData(p, data)
    \/ \E p \in 1..MaxSpawns, code \in ExitCodes : PtyExit(p, code)
    \/ \E i \in 1..MaxMockSteps : MockTimer(i)
    \/ ThemeTimer

Spec == Init /\ [][Next]_vars

----------------------------------------------------------------------------
(* The server with clients that start, stop and ask for the state, and        *)
(* subprocesses that exit                                                     *)

RestartInit == Init /\ mockMode = FALSE

\* a frame that is no JSON text
NotJson == [type |-> "", data |-> <<>>, size |-> 20, json |-> FALSE]

RestartMessages ==
    {Inbound("start", <<>>), Inbound("stop", <<>>), Inbound("getState", <<>>),
     Inbound("input", undefined), NotJson}

RestartMessage(c, m) == nMsgs < MaxRestartMsgs /\ onMessage(c, m)

RestartNext ==
    \/ \E c \in Clients, tok \in Tokens : Connect(c, tok)
    \/ \E c \in Clients, m \in RestartMessages : RestartMessage(c, m)
    \/ \E p \in 1..MaxSpawns, code \in ExitCodes : PtyExit(p, code)

SpecRestart == RestartInit /\ [][RestartNext]_vars

----------------------------------------------------------------------------
(* The PTYManager driven directly by its caller and its subprocesses *)

SessionChunks == {Chunk.yn, Chunk.text, Chunk.accent}

SessionInit == Init /\ mockMode = FALSE

\* ptyManager.spawn(): it throws while running, or when pty.spawn throws
SessionSpawn ==
    /\ IF running THEN UNCHANGED ptyVars ELSE SpawnOk \/ UNCHANGED ptyVars
    /\ evt' = Event("spawn", 0, "", <<>>)
    /\ UNCHANGED <<watcherVars, mockMode, patternVars, notifierVars, themeVars, mockVars, clients, ws, recv,
                   accessVars, timeVars, crashed, nMsgs>>

\* ptyManager.kill()
SessionKill ==
    /\ kill
    /\ evt' = Event("kill", 0, "", <<>>)
    /\ UNCHANGED <<watcherVars, mockMode, patternVars, notifierVars, themeVars, mockVars, clients, ws, recv,
                   accessVars, timeVars, crashed, nMsgs>>

\* a subprocess emits a chunk
SessionData ==
    /\ CountOp(stream, "data") < MaxData
    /\ \E p \in procs, data \in SessionChunks :
          onData(data) /\ evt' = Event("data", p, "", data)
    /\ UNCHANGED <<written, watcherVars, mockMode, patternVars, notifierVars, themeVars, mockVars, clients, ws, recv,
                   accessVars, timeVars, crashed, nMsgs>>

\* a subprocess exits
SessionExit ==
    /\ \E p \in procs, code \in ExitCodes :
          onExit(p, code) /\ evt' = Event("exit", p, "", <<>>)
    /\ UNCHANGED <<written, watcherVars, mockMode, patternVars, notifierVars, themeVars, mockVars, clients, ws, recv,
                   accessVars, timeVars, crashed, nMsgs>>

\* ptyManager.write(data): the bytes go to the attached subprocess, or it throws
\* 'PTY not running'
SessionWrite ==
    /\ IF CanWrite
       THEN /\ Len(written) < MaxWrites
            /\ Write(<<"y">>)
            /\ evt' = Event("write", 0, "ok", <<"y">>)
       ELSE /\ written' = written
            /\ evt' = Event("write", 0, "PTY not running", <<"y">>)
    /\ UNCHANGED <<running, exitCode, buffer, pty, procs, nSpawned, signaled, stream,
                   watcherVars, mockMode, patternVars, notifierVars, themeVars, mockVars, clients, ws, recv,
                   accessVars, timeVars, crashed, nMsgs>>

SessionNext == SessionSpawn \/ SessionKill \/ SessionData \/ SessionExit \/ SessionWrite

SpecSession == SessionInit /\ [][SessionNext]_vars

----------------------------------------------------------------------------
(* The admission and abuse rules of server.js, with the clock, the periodic   *)
(* sweeps and a session that is started at most once                          *)

\* the amounts by which Date.now() is seen to advance between two events
TickSteps == {MESSAGE_WINDOW, WS_WINDOW, BAN_DURATION, 2 * BAN_DURATION, SESSION_DURATION + 1}

Tick(d) ==
    /\ ~crashed
    /\ nTicks < MaxTicks
    /\ now' = now + d
    /\ nTicks' = nTicks + 1
    /\ evt' = Event("tick", 0, "", <<>>)
    /\ UNCHANGED <<watcherVars, ptyVars, mockMode, patternVars, notifierVars, themeVars, mockVars, clients, ws, recv,
                   accessVars, crashed, nMsgs>>

\* the timer that cleans up expired bans; a run that finds none is left out
BanSweep ==
    /\ ~crashed
    /\ \E ip \in Ips : bannedIps[ip] # None /\ now > bannedIps[ip][1]
    /\ bannedIps' = [ip \in Ips |->
                        IF bannedIps[ip] # None /\ now > bannedIps[ip][1]
                        THEN None ELSE bannedIps[ip]]
    /\ evt' = Event("banSweep", 0, "", <<>>)
    /\ UNCHANGED <<watcherVars, ptyVars, mockMode, patternVars, notifierVars, themeVars, mockVars, clients, ws, recv,
                   wsConnections, admitted, lastBan, sessions, timeVars, crashed, nMsgs>>

\* the timer that cleans up expired sessions; a run that finds none is left out
SessionSweep ==
    /\ ~crashed
    /\ \E t \in Tokens : sessions[t] # None /\ now - sessions[t][1] > SESSION_DURATION
    /\ sessions' = [t \in Tokens |->
                       IF sessions[t] # None /\ now - sessions[t][1] > SESSION_DURATION
                       THEN None ELSE sessions[t]]
    /\ evt' = Event("sessionSweep", 0, "", <<>>)
    /\ UNCHANGED <<watcherVars, ptyVars, mockMode, patternVars, notifierVars, themeVars, mockVars, clients, ws, recv,
                   wsConnections, admitted, lastBan, bannedIps, timeVars, crashed, nMsgs>>

\* a connection that was rejected or has closed is gone: the next attempt of
\* the client is a new connection
Forget(c) ==
    /\ ~crashed
    /\ ws[c].state \in {"closed", "rejected"}
    /\ ws' = [ws EXCEPT ![c] = NoSocket]
    /\ recv' = [recv EXCEPT ![c] = <<>>]
    /\ evt' = Event("forget", c, "", <<>>)
    /\ UNCHANGED <<watcherVars, ptyVars, mockMode, patternVars, notifierVars, themeVars, mockVars, clients, accessVars,
                   timeVars, crashed, nMsgs>>

\* a stop request padded beyond the byte ceiling
OversizedStop == [type |-> "stop", data |-> <<>>, size |-> MaxPayload + 1, json |-> TRUE]

\* a message of a type handleClientMessage does not know
Ping == Inbound("ping", <<>>)

AdmissionInit == Init /\ mockMode = FALSE

AdmissionConnect(c, tok) == Len(admitted) < MaxAdmits /\ Connect(c, tok)

AdmissionNext ==
    \/ \E c \in Clients, tok \in Credentials : AdmissionConnect(c, tok)
    \/ \E c \in Clients : Disconnect(c)
    \/ \E c \in Clients : Forget(c)
    \/ \E c \in Clients : Message(c, Ping)
    \/ \E d \in TickSteps : Tick(d)
    \/ SessionSweep

SpecAdmission == AdmissionInit /\ [][AdmissionNext]_vars

\* the number of messages of the connection the abuse rules start with
FloodStart == MESSAGE_RATE_LIMIT - 1

\* the state the abuse rules are explored from: eight connections came and
\* went, clients 1 and 2 were admitted as the ninth and tenth, and client 1 has
\* sent FloodStart messages, all within the same millisecond
AbuseInit ==
    /\ lines = <<>> /\ lastTrigger = None /\ nTrigger = 0 /\ wlog = <<>>
    /\ running = FALSE /\ exitCode = None /\ buffer = <<>> /\ pty = None
    /\ procs = {} /\ nSpawned = 0 /\ signaled = {} /\ written = <<>> /\ stream = <<>>
    /\ mockMode = FALSE /\ themeSent = FALSE /\ themeTimers = 0
    /\ mockInputHandler = None /\ mockTimers = <<>>
    /\ clients = Clients
    /\ ws = [c \in Clients |->
                [state |-> OPEN, code |-> 0, violations |-> 0,
                 stamps |-> IF c = 1 THEN [i \in 1..FloodStart |-> 0] ELSE <<>>]]
    /\ recv = [c \in Clients |-> <<StateMsg(FALSE, None, <<>>, <<>>, None)>>]
    /\ wsConnections = [ip \in Ips |-> [i \in 1..WS_RATE_LIMIT |-> 0]]
    /\ bannedIps = [ip \in Ips |-> None]
    /\ lastBan = [ip \in Ips |-> None]
    /\ sessions = [t \in Tokens |-> Some(0)]
    /\ admitted = [i \in 1..WS_RATE_LIMIT |-> <<IpOf(1), 0>>]
    /\ now = 0 /\ nTicks = 0 /\ crashed = FALSE
    /\ nMsgs = FloodStart
    /\ patterns = [OPTION_PATTERNS |-> OPTION_PATTERNS, sortedPatterns |-> sortedPatterns]
    /\ registered = <<>>
    /\ notifier = NewNotifier(None)
    /\ fetches = <<>>
    /\ nlog = <<>>
    /\ evt = [kind |-> "message", client |-> 1, type |-> Ping.type, data |-> Ping.data,
              size |-> Ping.size, json |-> TRUE]

\* the inbound messages: one of an unknown type, a start, and the oversized stop
AbuseMessages == {Ping, Inbound("start", <<>>), OversizedStop}

\* a message; start is sent once
AbuseMessage(c, m) ==
    /\ nMsgs < FloodStart + MaxFlood
    /\ m.type = "start" => wlog = <<>>
    /\ onMessage(c, m)

\* the first output of the subprocess: a prompt
AbuseData(p) == buffer = <<>> /\ PtyData(p, Chunk.yn)

AbuseConnect(c, tok) ==
    /\ Len(admitted) < WS_RATE_LIMIT + MaxAbuseAdmits
    /\ Connect(c, tok)

\* the credentials presented are a token and an unknown one; the clock advances
\* past the message window or the connection window
AbuseNext ==
    \/ \E c \in Clients, tok \in Tokens \cup {"bad"} : AbuseConnect(c, tok)
    \/ \E c \in Clients : Disconnect(c)
    \/ \E c \in Clients : Forget(c)
    \/ \E c \in Clients, m \in AbuseMessages : AbuseMessage(c, m)
    \/ \E p \in 1..MaxSpawns : AbuseData(p)
    \/ \E d \in {MESSAGE_WINDOW, WS_WINDOW} : Tick(d)

SpecAbuse == AbuseInit /\ [][AbuseNext]_vars

BanMessage(c) == nMsgs < FloodStart + MaxFlood /\ onMessage(c, Ping)

BanConnect(c, tok) ==
    /\ Len(admitted) < WS_RATE_LIMIT + MaxBanAdmits
    /\ Connect(c, tok)

\* the ban from its cause to its end: messages of one type, and enough
\* connection attempts to fill the connection window again after the ban
BanNext ==
    \/ \E c \in Clients, tok \in Credentials : BanConnect(c, tok)
    \/ \E c \in Clients : Disconnect(c)
    \/ \E c \in Clients : Forget(c)
    \/ \E c \in Clients : BanMessage(c)
    \/ \E d \in TickSteps : Tick(d)
    \/ BanSweep
    \/ SessionSweep

SpecBan == AbuseInit /\ [][BanNext]_vars

----------------------------------------------------------------------------
(* The Watcher driven directly by its caller *)


WatcherChunks ==
    {Chunk.yn, Chunk.yn_head, Chunk.yn_tail, Chunk.yn_ansi, Chunk.menu,
     Chunk.letters, Chunk.text}

WatcherInit == Init /\ mockMode = FALSE

Process ==
    /\ CountOp(wlog, "process") < MaxChunks
    /\ \E data \in WatcherChunks : ProcessStep(data) /\ evt' = Event("process", 0, "", data)
    /\ UNCHANGED <<ptyVars, mockMode, patternVars, themeVars, mockVars, clients, ws, recv, accessVars,
                   timeVars, crashed, nMsgs>>

Reset ==
    /\ CountOp(wlog, "reset") < MaxResets
    /\ ResetStep
    /\ evt' = Event("reset", 0, "", <<>>)
    /\ UNCHANGED <<ptyVars, mockMode, patternVars, notifierVars, themeVars, mockVars, clients, ws, recv, accessVars,
                   timeVars, crashed, nMsgs>>

WatcherNext == Process \/ Reset

SpecWatcher == WatcherInit /\ [][WatcherNext]_vars

----------------------------------------------------------------------------
(* Properties of the Watcher, stated on the history of its calls *)

IsProcess(k) == wlog[k].op = "process"

\* the position of the last reset before entry k, 0 when there is none
LastResetBefore(k) ==
    IF \E j \in 1..(k - 1) : wlog[j].op = "reset"
    THEN CHOOSE j \in 1..(k - 1) :
             wlog[j].op = "reset" /\ \A i \in (j + 1)..(k - 1) : wlog[i].op # "reset"
    ELSE 0

\* the process calls between the last reset before k and k
Since(k) == {i \in (LastResetBefore(k) + 1)..(k - 1) : IsProcess(i)}

\* the process calls before k, since the last reset, whose window matched
MatchedSince(k) == {i \in Since(k) : wlog[i].res # None}

\* the process calls before k, since the last reset, that emitted a trigger
EmittedSince(k) == {i \in Since(k) : wlog[i].ret # None}

\* the trigger held when call k starts: the last one emitted since the last reset
HeldAt(k) == wlog[CHOOSE i \in EmittedSince(k) : \A j \in EmittedSince(k) : j <= i].ret

\* call k is a process call whose window matches, and every earlier match since
\* the last reset was of that same prompt
SamePromptUpTo(k) ==
    /\ IsProcess(k)
    /\ wlog[k].res # None
    /\ \A i \in MatchedSince(k) : wlog[i].res = wlog[k].res

\* C2: while the window keeps matching one unchanged prompt and no reset occurs,
\* the first process call whose window matches returns the trigger and invokes
\* onTrigger once, every later call returns null and does not invoke onTrigger;
\* onTrigger has run exactly once per returned trigger
C2_OneEventPerUnchangedPrompt ==
    /\ \A k \in 1..Len(wlog) :
         SamePromptUpTo(k) =>
           IF MatchedSince(k) = {}
           THEN wlog[k].ret = wlog[k].res /\ wlog[k].trig
           ELSE wlog[k].ret = None /\ ~wlog[k].trig
    /\ nTrigger = Cardinality({k \in 1..Len(wlog) : wlog[k].ret # None})

C2_Witness ==
    \E k \in 1..Len(wlog) :
        /\ SamePromptUpTo(k)
        /\ Cardinality(MatchedSince(k)) >= 2
        /\ wlog[k].ret = None
        /\ nTrigger = 1

\* C3: right after reset() the window is empty and no trigger is held; and the
\* first process call after a reset whose window matches a prompt that had been
\* emitted before that reset emits it again
C3_ResetThenSamePromptEmitsAgain ==
    /\ (Len(wlog) > 0 /\ wlog[Len(wlog)].op = "reset") =>
         (lines = <<>> /\ lastTrigger = None)
    /\ \A k \in 1..Len(wlog) :
         ( /\ IsProcess(k)
           /\ wlog[k].res # None
           /\ MatchedSince(k) = {}
           /\ \E i \in 1..(LastResetBefore(k) - 1) : wlog[i].ret = wlog[k].res )
         => (wlog[k].ret = wlog[k].res /\ wlog[k].trig)

C3_Witness ==
    \E k \in 1..Len(wlog) :
        /\ IsProcess(k)
        /\ wlog[k].res # None
        /\ MatchedSince(k) = {}
        /\ \E i \in 1..(LastResetBefore(k) - 1) :
               wlog[i].ret = wlog[k].res /\ wlog[i].data = wlog[k].data
        /\ wlog[k].ret = wlog[k].res
        /\ nTrigger = 2

\* C4: while a trigger is held and no reset occurs, a chunk that makes the window
\* match a prompt different from the held one emits a trigger for the new prompt
C4_DifferentPromptEmits ==
    \A k \in 1..Len(wlog) :
        ( /\ IsProcess(k)
          /\ wlog[k].res # None
          /\ EmittedSince(k) # {}
          /\ wlog[k].res # HeldAt(k)
          /\ wlog[k - 1].res # wlog[k].res )
        => (wlog[k].ret = wlog[k].res /\ wlog[k].trig)

----------------------------------------------------------------------------
(* Properties of the PTYManager, stated on the history of its subprocesses *)

\* the bytes of the chunks of the history st that follow its last spawn
RECURSIVE BytesSinceSpawn(_)
BytesSinceSpawn(st) ==
    IF Len(st) = 0 \/ st[Len(st)].op = "spawn" THEN <<>>
    ELSE BytesSinceSpawn(SubSeq(st, 1, Len(st) - 1)) \o BufferFrom(st[Len(st)].data)

\* the bytes themselves when they fit the capacity, else their last bufferSize
TailBytes(bytes) ==
    IF Len(bytes) <= bufferSize THEN bytes
    ELSE SubSeq(bytes, Len(bytes) - bufferSize + 1, Len(bytes))

\* C1: after any sequence of chunks received since the last start, the buffer
\* is their whole concatenation when that is no longer than the capacity and
\* otherwise its last `capacity` bytes; its length never exceeds the capacity.
C1_BufferIsTailOfChunks ==
    /\ Len(buffer) <= bufferSize
    /\ buffer = TailBytes(BytesSinceSpawn(stream))

\* two chunks or more went into the buffer and the oldest bytes were dropped
C1_Witness ==
    /\ CountOp(stream, "data") >= 2
    /\ Len(BytesSinceSpawn(stream)) > bufferSize
    /\ Len(buffer) = bufferSize
    /\ buffer # BytesSinceSpawn(stream)

\* C5: in every reachable state at most one spawned subprocess that has not
\* yet delivered its exit notification exists.
C5_AtMostOneLiveSubprocess == Cardinality(procs) <= 1

\* C6: kill() only signals the subprocess; the running flag becomes false only
\* in the step that handles the exit notification of the subprocess.
C6_RunningFlipsOnlyOnExit == [][(running /\ ~running') => evt'.kind = "exit"]_vars

----------------------------------------------------------------------------
(* Properties of the server *)

\* the data of the entries of a history with operation op, in order
RECURSIVE DataOf(_, _)
DataOf(log, op) ==
    IF Len(log) = 0 THEN <<>>
    ELSE (IF log[1].op = op THEN <<log[1].data>> ELSE <<>>) \o DataOf(Tail(log), op)

\* the data of the output messages among msgs, in order
RECURSIVE OutputsOf(_)
OutputsOf(msgs) ==
    IF Len(msgs) = 0 THEN <<>>
    ELSE (IF msgs[1].type = "output" THEN <<msgs[1].data>> ELSE <<>>) \o OutputsOf(Tail(msgs))

Str_AlreadyRunning == "Claude Code is already running"

\* the step handles a start request while a session is running
StartWhileRunning ==
    /\ nMsgs' # nMsgs
    /\ evt'.kind = "message"
    /\ evt'.type = "start"
    /\ running

\* C7: a start request made while a session is running is answered with the
\* already-running error to the open clients and changes nothing: no subprocess
\* is spawned, and the running flag, the exit code, the buffer and the Watcher's
\* window and held trigger keep their values.
C7_StartWhileRunningChangesNothing ==
    [][StartWhileRunning =>
        /\ UNCHANGED <<running, exitCode, buffer, pty, procs, nSpawned, lines, lastTrigger>>
        /\ \A c \in Clients :
              recv'[c] = IF c \in clients /\ ws[c].state = OPEN
                         THEN Append(recv[c], ErrorMsg(Str_AlreadyRunning))
                         ELSE recv[c]]_vars

\* a start request was just refused while the Watcher held a trigger and both
\* clients were listening
C7_Witness ==
    /\ evt.kind = "message" /\ evt.type = "start"
    /\ running
    /\ lastTrigger # None /\ lines # <<>> /\ buffer # <<>>
    /\ \A c \in Clients :
          /\ ws[c].state = OPEN
          /\ recv[c][Len(recv[c])] = ErrorMsg(Str_AlreadyRunning)

\* C8: every chunk handed to the Watcher and broadcast as an output message,
\* whatever produced it, has been appended to the output buffer of the
\* PTYManager.
C8_BroadcastChunksAreBuffered == DataOf(wlog, "process") = DataOf(stream, "data")

\* the snapshot of client c is the buffer as it was after the first j entries of
\* the history, and the outputs of c are the chunks of the entries after them
SnapshotAt(c, j) ==
    /\ recv[c][1].buffer =
          BufferToString(TailBytes(BytesSinceSpawn(SubSeq(stream, 1, j))))
    /\ OutputsOf(recv[c]) = DataOf(SubSeq(stream, j + 1, Len(stream)), "data")

\* client c is open and was admitted while a session was running
AdmittedWhileRunning(c) ==
    /\ ws[c].state = OPEN
    /\ Len(recv[c]) > 0
    /\ recv[c][1].type = "state"
    /\ recv[c][1].pty.running

\* C9: for a client admitted while the session is running, the buffer of its
\* state snapshot followed by the output messages it receives afterwards
\* reproduces the output stream from the start of the snapshot buffer onwards,
\* no chunk missing and none duplicated.
C9_SnapshotThenOutputsReproduceStream ==
    \A c \in Clients :
        AdmittedWhileRunning(c) => \E j \in 0..Len(stream) : SnapshotAt(c, j)

\* a client was admitted between two chunks
C9_Witness ==
    \E c \in Clients :
        /\ AdmittedWhileRunning(c)
        /\ recv[c][1].buffer # <<>>
        /\ Len(OutputsOf(recv[c])) >= 1
        /\ CountOp(stream, "data") > Len(OutputsOf(recv[c]))

\* the process entry of the history that the output message at position i of
\* msgs reports, when the outputs of msgs are the last process calls
EntryOfOutput(processed, msgs, i) ==
    processed[Len(processed) - Len(OutputsOf(msgs)) + Len(OutputsOf(SubSeq(msgs, 1, i)))]

\* the outputs of msgs are the chunks of the last process calls, in their order,
\* and each options message directly follows the output of the chunk whose
\* process call returned it
InEmissionOrder(processed, msgs) ==
    /\ Len(OutputsOf(msgs)) <= Len(processed)
    /\ OutputsOf(msgs) =
          DataOf(SubSeq(processed, Len(processed) - Len(OutputsOf(msgs)) + 1,
                        Len(processed)), "process")
    /\ \A i \in 1..Len(msgs) :
          msgs[i].type = "options" =>
              /\ i > 1
              /\ msgs[i - 1].type = "output"
              /\ EntryOfOutput(processed, msgs, i - 1).data = msgs[i - 1].data
              /\ EntryOfOutput(processed, msgs, i - 1).ret # None
              /\ msgs[i] = OptionsMsg(EntryOfOutput(processed, msgs, i - 1).ret[1])

\* C10: each open client receives the output messages in emission order, and
\* the options message of a trigger only after the output message that carries
\* the chunk that caused the trigger.
C10_OutputsInOrderTriggerAfterOutput ==
    \A c \in Clients :
        ws[c].state = OPEN =>
            InEmissionOrder(SelectSeq(wlog, LAMBDA e : e.op = "process"), recv[c])

\* both clients are open and got a trigger after its output; one of them got an
\* earlier output as well
C10_Witness ==
    /\ \A c \in Clients :
          /\ ws[c].state = OPEN
          /\ \E i \in 2..Len(recv[c]) :
                recv[c][i].type = "options" /\ recv[c][i - 1].type = "output"
    /\ \E c \in Clients : Len(OutputsOf(recv[c])) >= 2

\* the step forwards the input of a client message to the session
InputForwarded ==
    /\ nMsgs' # nMsgs
    /\ evt'.kind = "message"
    /\ evt'.type = "input"
    /\ pty # None
    /\ written' = Append(written, <<pty[1], evt'.data>>)

HasCarriageReturn(data) == \E i \in 1..Len(data) : data[i] = "\r"

\* C11: whenever an input with a carriage return is forwarded to the running
\* session, the Watcher is reset to idle and hideOptions is broadcast to every
\* open client; an input without one is forwarded without a reset and without a
\* hideOptions broadcast.
C11_CarriageReturnResetsAndHides ==
    [][InputForwarded =>
        IF HasCarriageReturn(evt'.data)
        THEN /\ lines' = <<>>
             /\ lastTrigger' = None
             /\ \A c \in Clients :
                   recv'[c] = IF c \in clients /\ ws[c].state = OPEN
                              THEN Append(recv[c], HideOptionsMsg)
                              ELSE recv[c]
        ELSE UNCHANGED <<lines, lastTrigger, wlog, recv>>]_vars

\* the answer to a prompt was just forwarded: the trigger that was held is
\* gone and an open client was told to hide the choices
C11_Witness ==
    /\ evt.kind = "message" /\ evt.type = "input" /\ HasCarriageReturn(evt.data)
    /\ Len(written) > 0 /\ written[Len(written)][2] = evt.data
    /\ Len(wlog) >= 2
    /\ wlog[Len(wlog)].op = "reset"
    /\ wlog[Len(wlog) - 1].trig
    /\ lastTrigger = None /\ lines = <<>>
    /\ \E c \in Clients :
          ws[c].state = OPEN /\ recv[c][Len(recv[c])] = HideOptionsMsg

\* C12: when the session exits the held trigger is cleared: from the handling
\* of the exit notification until the next start the Watcher holds no trigger.
C12_NoTriggerAfterExit ==
    (~running /\ exitCode # None) => lastTrigger = None

----------------------------------------------------------------------------
(* Admission and abuse rules *)

\* this step is the connection attempt of c presenting tok
ConnectStep(c, tok) ==
    /\ ws[c].state = "none" /\ ws'[c].state # "none"
    /\ evt' = Event("connect", c, tok, <<>>)

\* the credential is missing, unknown or expired
CredentialInvalid(tok) ==
    \/ tok = ""
    \/ tok \notin Tokens
    \/ sessions[tok] = None
    \/ now - sessions[tok][1] > SESSION_DURATION

\* the address is banned and the current time is before the ban's expiry
BanActive(ip) == bannedIps[ip] # None /\ now < bannedIps[ip][1]

\* the attempt is closed with this code: it is not in the live set and was sent
\* nothing
ClosedAtAdmission(c, code) ==
    /\ ws'[c].state = "rejected" /\ ws'[c].code = code
    /\ clients' = clients /\ c \notin clients'
    /\ recv' = recv /\ recv'[c] = <<>>

\* no message of a connection closed at admission is handled
NoMessageOfRejected ==
    \A c \in Clients :
        ws[c].state = "rejected" =>
            ~(nMsgs' # nMsgs /\ evt'.kind = "message" /\ evt'.client = c)

MessageStep(c) == nMsgs' # nMsgs /\ evt'.kind = "message" /\ evt'.client = c

\* this step is the MAX_VIOLATIONS-th violation of c
BanningViolation(c) ==
    /\ MessageStep(c)
    /\ ws[c].violations = MAX_VIOLATIONS - 1
    /\ ws'[c].violations = MAX_VIOLATIONS

\* the connection is closed and its address banned for BAN_DURATION from now
ClosedAndBanned(c) ==
    /\ ws'[c].state = CLOSING
    /\ ws[c].state = OPEN => ws'[c].code = 4429
    /\ bannedIps'[IpOf(c)] = Some(now + BAN_DURATION)
    /\ lastBan'[IpOf(c)] = Some(now + BAN_DURATION)

\* the address was banned and the current time is not before the expiry of its
\* last ban
BanExpired(ip) == lastBan[ip] # None /\ now >= lastBan[ip][1]

\* the session of the credential is known and has not expired
CredentialValid(tok) ==
    /\ tok \in Tokens
    /\ sessions[tok] # None
    /\ now - sessions[tok][1] <= SESSION_DURATION

\* the attempt is admitted to the live set
Admitted(c) == ws'[c].state = OPEN /\ clients' = clients \cup {c}

\* C14 as stated: a connection that commits MAX_VIOLATIONS violations is closed
\* and its address banned; every attempt from the address is rejected while the
\* time is before the expiry, and an authorized attempt made from the expiry on
\* is admitted, whether or not the ban sweep has removed the entry.
C14_BanUntilExpiry ==
    [][\A c \in Clients :
          /\ BanningViolation(c) => ClosedAndBanned(c)
          /\ \A tok \in Credentials :
                ConnectStep(c, tok) =>
                   /\ BanActive(IpOf(c)) => ClosedAtAdmission(c, 4403)
                   /\ BanExpired(IpOf(c)) /\ CredentialValid(tok) => Admitted(c)]_vars

\* the admissions of the address within the last WS_WINDOW
RecentAdmissions(ip) ==
    SelectSeq(admitted, LAMBDA a : a[1] = ip /\ now - a[2] < WS_WINDOW)

\* C14 amended: as stated, but the authorized attempt made from the expiry on is
\* admitted only if fewer than WS_RATE_LIMIT connections from the address were
\* admitted within the last WS_WINDOW.
C14_BanUntilExpiryThenRateLimit ==
    [][\A c \in Clients :
          /\ BanningViolation(c) => ClosedAndBanned(c)
          /\ \A tok \in Credentials :
                ConnectStep(c, tok) =>
                   /\ BanActive(IpOf(c)) => ClosedAtAdmission(c, 4403)
                   /\ /\ BanExpired(IpOf(c))
                      /\ CredentialValid(tok)
                      /\ Len(RecentAdmissions(IpOf(c))) < WS_RATE_LIMIT
                      => Admitted(c)]_vars

\* an authorized attempt was just admitted at the expiry of a ban the sweep has
\* not removed, after an attempt had been rejected during the ban
C14_Witness ==
    /\ evt.kind = "connect" /\ evt.type \in Tokens
    /\ ws[evt.client].state = OPEN
    /\ bannedIps[IpOf(evt.client)] # None
    /\ now >= bannedIps[IpOf(evt.client)][1]
    /\ \E c \in Clients : ws[c].state = "rejected" /\ ws[c].code = 4403

\* the accepted messages of c inside the last MESSAGE_WINDOW
AcceptedInWindow(c) ==
    Cardinality({i \in 1..Len(ws[c].stamps) : now - ws[c].stamps[i] < MESSAGE_WINDOW})

\* this step handles a message the server's payload ceiling lets through, of a
\* connection that has MESSAGE_RATE_LIMIT accepted messages inside the window
OverRateStep(c) ==
    /\ MessageStep(c)
    /\ evt'.size <= MaxPayload
    /\ AcceptedInWindow(c) >= MESSAGE_RATE_LIMIT

OversizedStep(c) == MessageStep(c) /\ evt'.size > MaxPayload

\* C16: a message larger than 65536 bytes closes its connection with code 1009
\* before the rate accounting and before parsing: its content is not handled
\* (nothing is sent, written, started or stopped), and the connection's message
\* timestamps, its violation counter and the ban map are unchanged.
C16_OversizedClosesBeforeAccounting ==
    [][\A c \in Clients :
          OversizedStep(c) =>
             /\ ws'[c].state = CLOSING
             /\ ws[c].state = OPEN => ws'[c].code = 1009
             /\ ws'[c].stamps = ws[c].stamps
             /\ ws'[c].violations = ws[c].violations
             /\ UNCHANGED <<bannedIps, lastBan, watcherVars, ptyVars, themeVars, mockVars,
                            mockMode, recv, clients, crashed>>
             /\ \A d \in Clients \ {c} : ws'[d] = ws[d]]_vars

\* an oversized stop request from a connection over the rate ceiling, sent while
\* a session runs, closed the connection with 1009: the session still runs and
\* the violations stay as they were
C16_Witness ==
    /\ evt.kind = "message" /\ evt.size > MaxPayload /\ evt.type = "stop"
    /\ ws[evt.client].state = CLOSING /\ ws[evt.client].code = 1009
    /\ Len(ws[evt.client].stamps) = MESSAGE_RATE_LIMIT
    /\ ws[evt.client].violations = 1
    /\ running /\ signaled = {}

\* the admissions of the address in the window of length WS_WINDOW that starts
\* at time t
AdmissionsFrom(ip, t) ==
    Cardinality({i \in 1..Len(admitted) :
                    /\ admitted[i][1] = ip
                    /\ t <= admitted[i][2]
                    /\ admitted[i][2] < t + WS_WINDOW})

\* in every window of length WS_WINDOW at most WS_RATE_LIMIT connections of an
\* address were admitted; the fullest windows start at an admission
WindowsWithinLimit ==
    \A ip \in Ips : \A i \in 1..Len(admitted) :
        AdmissionsFrom(ip, admitted[i][2]) <= WS_RATE_LIMIT

\* C17: for every source address and every window of length WS_WINDOW at most
\* WS_RATE_LIMIT connections from the address are admitted to the live set; an
\* attempt that would exceed the limit is closed with code 4029 and is not
\* added to the live set.
C17_ConnectionRateLimit ==
    [][/\ WindowsWithinLimit'
       /\ \A c \in Clients, tok \in Credentials :
             /\ ConnectStep(c, tok)
             /\ CredentialValid(tok) /\ ~BanActive(IpOf(c))
             /\ Len(RecentAdmissions(IpOf(c))) >= WS_RATE_LIMIT
             => ClosedAtAdmission(c, 4029)]_vars

\* WS_RATE_LIMIT connections were admitted, time has passed but less than
\* WS_WINDOW, and the next authorized attempt was closed as rate limited while
\* another connection of the same address is live
C17_Witness ==
    /\ evt.kind = "connect" /\ evt.type \in Tokens
    /\ ws[evt.client].state = "rejected" /\ ws[evt.client].code = 4029
    /\ Len(admitted) = WS_RATE_LIMIT
    /\ now > 0
    /\ \E d \in clients : IpOf(d) = IpOf(evt.client) /\ ws[d].state = OPEN

\* this step handles a start request of c that passes the size and rate checks:
\* startClaude broadcasts its outcome
StartHandled(c) ==
    /\ MessageStep(c)
    /\ evt'.type = "start"
    /\ evt'.size <= MaxPayload
    /\ AcceptedInWindow(c) < MESSAGE_RATE_LIMIT

\* this step handles output of the subprocess: broadcastOutput broadcasts it
DataHandled == evt'.kind = "data" /\ stream' # stream

\* the live connections in the open state
OpenClients == {d \in clients : ws[d].state = OPEN}

\* what this step sent to connection d
Delivered(d) == SubSeq(recv'[d], Len(recv[d]) + 1, Len(recv'[d]))

ForceClosed(c) ==
    \/ ws[c].state = "none" /\ ws'[c].state = "rejected"
    \/ ws[c].state = OPEN /\ ws'[c].state = CLOSING

\* C19: rejecting or force-closing one connection (codes 4001, 4403, 4029, 1009
\* and 4429) changes neither the session's running flag, exit code and output
\* buffer nor any other connection: no other connection is closed or removed
\* from the live set, those of the same address included.
C19_ClosingOneLeavesTheRest ==
    [][\A c \in Clients :
          ForceClosed(c) =>
             /\ ws'[c].code \in {4001, 4403, 4029, 1009, 4429}
             /\ UNCHANGED <<running, exitCode, buffer, pty, procs>>
             /\ \A d \in Clients \ {c} : ws'[d] = ws[d] /\ recv'[d] = recv[d]
             /\ clients' \ {c} = clients \ {c}]_vars

\* a connection was just closed for its fifth violation while a session with
\* output in its buffer runs and another connection from the same address is
\* open and live
C19_Witness ==
    /\ evt.kind = "message"
    /\ ws[evt.client].state = CLOSING /\ ws[evt.client].code = 4429
    /\ ws[evt.client].violations = MAX_VIOLATIONS
    /\ running /\ buffer # <<>>
    /\ \E d \in clients \ {evt.client} :
          ws[d].state = OPEN /\ IpOf(d) = IpOf(evt.client)

\* this step is the disconnection of c
DisconnectStep(c) ==
    /\ evt' = Event("disconnect", c, "", <<>>)
    /\ ws[c].state \in {OPEN, CLOSING} /\ ws'[c].state = "closed"

\* C20: the disconnection of a client removes exactly that connection from the
\* live set and leaves the ban map, the connection timestamps of the addresses,
\* the session and the Watcher unchanged; a ban imposed through the connection
\* keeps rejecting the attempts from its address after the disconnect.
C20_DisconnectRemovesOnlyTheConnection ==
    [][\A c \in Clients :
          /\ DisconnectStep(c) =>
                /\ clients' = clients \ {c}
                /\ \A d \in Clients \ {c} : ws'[d] = ws[d]
                /\ UNCHANGED <<bannedIps, wsConnections, sessions, ptyVars, watcherVars,
                               themeVars, mockVars, recv>>
          /\ \A tok \in Credentials :
                ConnectStep(c, tok) /\ BanActive(IpOf(c)) => ClosedAtAdmission(c, 4403)]_vars

\* the connection whose fifth violation banned the address has disconnected,
\* and an authorized attempt from the address was then closed as banned; the
\* session runs and the Watcher holds a trigger throughout
C20_Witness ==
    /\ evt.kind = "connect" /\ evt.type \in Tokens
    /\ ws[evt.client].state = "rejected" /\ ws[evt.client].code = 4403
    /\ \E d \in Clients \ clients :
          /\ ws[d].state = "closed" /\ ws[d].code = 4429
          /\ ws[d].violations = MAX_VIOLATIONS
          /\ IpOf(d) = IpOf(evt.client)
    /\ running /\ lastTrigger # None

----------------------------------------------------------------------------
(* Failures of the session and of the messages *)

\* this step handles a start request while no session is running, outside mock
\* mode, and creates no subprocess: the spawn (or the directory) failed
StartFailed(c) ==
    /\ StartHandled(c)
    /\ ~mockMode /\ ~running
    /\ nSpawned' = nSpawned

\* this step handles a start request while no session is running
StartWhileInactive(c) == StartHandled(c) /\ ~running

\* C21: if spawning the subprocess fails the session remains inactive, the
\* failure is sent to every open client as an error message, and a later start
\* request (any start request made while no session runs) is not rejected as
\* already running.
C21_SpawnFailureSurfacedAndRecoverable ==
    [][\A c \in Clients :
          /\ StartFailed(c) =>
                /\ running' = FALSE /\ pty' = pty /\ procs' = procs
                /\ \A d \in OpenClients :
                      /\ Len(recv'[d]) > Len(recv[d])
                      /\ SubSeq(recv'[d], 1, Len(recv[d])) = recv[d]
                      /\ \A i \in 1..Len(Delivered(d)) : Delivered(d)[i].type = "error"
          /\ StartWhileInactive(c) =>
                \A d \in Clients : \A i \in 1..Len(Delivered(d)) :
                    Delivered(d)[i] # ErrorMsg(Str_AlreadyRunning)]_vars

\* a start failed at the spawn and the client was told; its next start request
\* has just started a session
C21_Witness ==
    /\ evt.kind = "message" /\ evt.type = "start"
    /\ running /\ nSpawned = 1
    /\ ws[evt.client].state = OPEN
    /\ Len(recv[evt.client]) = 4
    /\ recv[evt.client][2] = ErrorMsg("spawn failed")
    /\ recv[evt.client][3] = ErrorMsg("Failed to start: spawn failed")
    /\ recv[evt.client][4] = StartedMsg

\* no session is active: no subprocess was ever attached, the attached one has
\* exited, or the running flag is down (as it is after a failed spawn)
NoActiveSession == pty = None \/ pty[1] \notin procs \/ ~running

\* this step is a call of write
WriteCalled == evt'.kind = "write" /\ (written' # written \/ evt'.type # "ok")

\* C22: whenever no session is active (before the first start, after the
\* subprocess has exited, after a failed spawn) write fails with the
\* not-running error and forwards no bytes to any subprocess.
C22_WriteFailsWhenInactive ==
    [][WriteCalled /\ NoActiveSession =>
          evt'.type = "PTY not running" /\ written' = written]_vars

\* a write was forwarded to the running subprocess; after its exit the next
\* write has just failed and forwarded nothing
C22_Witness ==
    /\ evt = Event("write", 0, "PTY not running", <<"y">>)
    /\ Len(written) = 1
    /\ pty # None /\ pty[1] \notin procs
    /\ exitCode # None

\* this step handles the exit of a subprocess
ExitStep == evt'.kind = "exit" /\ procs' # procs

\* this step starts a session
StartStep == nSpawned' # nSpawned

\* the messages of the type sent to connection d in this step
DeliveredOfType(d, type) == SelectSeq(Delivered(d), LAMBDA m : m.type = type)

\* C23: when a subprocess terminates the running flag becomes false and the
\* exit code is recorded; every state snapshot sent from then until the next
\* start reports that exit code; and one exit message per terminated
\* subprocess, no more, is broadcast to the open clients.
C23_ExitRecordedAndBroadcastOnce ==
    [][/\ ExitStep =>
             /\ running' = FALSE /\ exitCode' # None
             /\ \A d \in OpenClients : Delivered(d) = <<ExitMsg(exitCode')>>
       /\ ~ExitStep => \A d \in Clients : DeliveredOfType(d, "exit") = <<>>
       /\ exitCode # None /\ ~StartStep => exitCode' = exitCode
       /\ ~ExitStep /\ ~StartStep =>
             \A d \in Clients : \A i \in 1..Len(DeliveredOfType(d, "state")) :
                 DeliveredOfType(d, "state")[i].pty.exitCode = exitCode]_vars

\* this step handles a message of c within the limits that is no JSON text, or
\* one whose handling throws
FailingMessageStep(c) ==
    /\ MessageStep(c)
    /\ evt'.size <= MaxPayload
    /\ AcceptedInWindow(c) < MESSAGE_RATE_LIMIT
    /\ \/ ~evt'.json
       \/ /\ evt'.type = "input"
          /\ evt'.data = undefined
          /\ (mockMode /\ mockInputHandler # None) \/ running

\* C24: a message that is no valid JSON, or whose handling raises an error,
\* leaves the error inside the message handler: the process goes on, the
\* connection stays in the live set and open, no other connection changes or
\* receives anything, and the session keeps its subprocess and its running flag
C24_MessageErrorContained ==
    [][\A c \in Clients :
         FailingMessageStep(c) =>
             /\ crashed' = FALSE
             /\ clients' = clients
             /\ ws'[c].state = ws[c].state
             /\ \A d \in Clients \ {c} : ws'[d] = ws[d]
             /\ recv' = recv
             /\ <<running, exitCode, pty, procs, signaled>>' =
                    <<running, exitCode, pty, procs, signaled>>]_vars

\* an input without data was handled while the session ran, and the session
\* still runs with its subprocess alive and its sender in the live set
C24_Witness ==
    /\ evt.kind = "message"
    /\ evt.type = "input"
    /\ evt.data = undefined
    /\ running
    /\ pty # None
    /\ pty[1] \in procs
    /\ evt.client \in clients
    /\ ws[evt.client].state = OPEN
    /\ ~crashed

----------------------------------------------------------------------------
(* The held trigger and the window *)

\* C25: in every state of the Watcher, a held trigger (lastTrigger set) goes
\* with a window whose text still parses to a match
C25_HeldTriggerInWindow ==
    lastTrigger # None => parseOptions(Join(lines)) # None

----------------------------------------------------------------------------
(* parseOptions called directly on the texts of a caller *)

\* the lines the caller's texts are made of
ParseLines ==
    {<<"1", ".", " ", "A">>,
     <<"2", ".", " ", "B">>,
     <<"0", "1", ".", " ", "C">>,
     <<"2", "1", ".", " ", "A">>,
     <<"3", ".", " ", "C", " ", "1", ".", " ", "A">>,
     <<"2", ".", " ", "B", " ", "[", "Y", "/", "n", "]">>,
     <<"D", "?", " ", "(", "y", "/", "n", ")">>,
     <<"D", "?", " ", "(", "y", "/", "n", "/", "a", ")">>,
     <<"P", "r", "e", "s", "s", " ", "E", "n", "t", "e", "r">>,
     <<"(", "a", ")", "b", " ", "(", "c", ")", "d">>,
     <<"(", "a", ")", "b">>,
     <<"o", "k">>}

\* the texts of at most MaxParseLines of these lines
ParseTexts == {Join(ls) : ls \in UNION {[1..n -> ParseLines] : n \in 0..MaxParseLines}}

ParseInit == Init /\ mockMode = FALSE

\* the one call parseOptions(text) of a run: the text and the result are kept in
\* evt
ParseCall ==
    /\ evt.kind = "init"
    /\ \E text \in ParseTexts :
         evt' = [kind |-> "parseOptions", client |-> 0, type |-> "", data |-> text,
                 res |-> parseOptions(text)]
    /\ UNCHANGED <<watcherVars, ptyVars, mockMode, themeVars, mockVars, clients, ws, recv,
                   accessVars, timeVars, crashed, nMsgs, patternVars, notifierVars>>

ParseNext == ParseCall

SpecParse == ParseInit /\ [][ParseNext]_vars

----------------------------------------------------------------------------
(* The choice of the matcher *)

\* the priorities the matchers are said to have
ClaimedPriority ==
    [name \in {"numbered-options", "yes-no-always", "yes-no", "press-enter",
               "letter-in-parens"} |->
       CASE name = "numbered-options" -> 15
         [] name = "yes-no-always" -> 11
         [] name = "yes-no" -> 10
         [] name = "press-enter" -> 9
         [] name = "letter-in-parens" -> 8]

\* the window parseOptions looks at for the text
RecentLines(text) == Join(LastN(Split(Trim(text)), ParseMaxLines))

\* the matcher recognizes the window and extracts at least one choice
Yields(name, t) ==
    /\ PatternOptions(name, t) # None
    /\ Len(PatternOptions(name, t)[1]) > 0

\* the matchers that yield choices on the window t
Yielding(t) == {name \in DOMAIN ClaimedPriority : Yields(name, t)}

\* C26: parseOptions returns the result of the matcher of highest priority
\* (numbered list 15, yes/no/always 11, yes/no 10, press-enter 9, parenthesized
\* letters 8) among those that recognize the window and extract choices; a
\* matcher that recognizes the window and extracts nothing is passed over, the
\* choices are those of the one matcher chosen, and there is no result when no
\* matcher yields choices
C26_HighestPriorityMatcherWins ==
    evt.kind = "parseOptions" /\ Len(evt.data) > 0 =>
        IF Yielding(RecentLines(evt.data)) = {}
        THEN evt.res = None
        ELSE /\ evt.res # None
             /\ evt.res[1].patternName \in Yielding(RecentLines(evt.data))
             /\ \A name \in Yielding(RecentLines(evt.data)) :
                    ClaimedPriority[name] <= ClaimedPriority[evt.res[1].patternName]
             /\ evt.res[1].options =
                    PatternOptions(evt.res[1].patternName, RecentLines(evt.data))[1]

\* a text whose single numbered item makes the numbered-list matcher recognize
\* it and extract nothing, and on which the yes/no matcher gave the result
C26_Witness ==
    /\ evt.kind = "parseOptions"
    /\ PatternMatches("numbered-options", RecentLines(evt.data))
    /\ PatternOptions("numbered-options", RecentLines(evt.data)) = None
    /\ evt.res # None
    /\ evt.res[1].patternName = "yes-no"
    /\ evt.res[1].options = <<Option(Str.Yes, Str.y), Option(Str.No, Str.n)>>

----------------------------------------------------------------------------
(* The numbered list *)

\* the numbers in 1..20 that head a numbered item on the lines of the window t
NumbersFound(t) ==
    {parseInt(NumberedLineMatch(line)[1]) :
        line \in {l \in {Split(t)[k] : k \in 1..Len(Split(t))} : NumberedLineMatch(l) # None}}
    \cap (1..20)

\* C27: the choices of the numbered-list matcher are exactly the distinct
\* numbers in 1..20 found on the lines of the window, in ascending order, each
\* with label and submitted value equal to the number as text, and the matcher
\* gives no result unless at least two distinct such numbers are found
C27_NumberedChoicesAreTheDistinctNumbers ==
    evt.kind = "parseOptions" /\ Len(evt.data) > 0 =>
        IF Cardinality(NumbersFound(RecentLines(evt.data))) >= 2
        THEN /\ evt.res # None
             /\ evt.res[1].patternName = "numbered-options"
             /\ Len(evt.res[1].options) = Cardinality(NumbersFound(RecentLines(evt.data)))
             /\ \A k \in 1..Len(evt.res[1].options) :
                    /\ evt.res[1].options[k].label = evt.res[1].options[k].value
                    /\ parseInt(evt.res[1].options[k].label) \in NumbersFound(RecentLines(evt.data))
                    /\ \A j \in 1..(k - 1) :
                           parseInt(evt.res[1].options[j].label)
                               < parseInt(evt.res[1].options[k].label)
        ELSE evt.res = None \/ evt.res[1].patternName # "numbered-options"

----------------------------------------------------------------------------
(* addPattern called directly by a caller of the pattern library *)

\* the names of the patterns the caller registers, in the order of registration
CustomNames == <<"custom-1", "custom-2", "custom-3">>

\* the priorities the caller passes: none, or an integer
CustomPriorities == {None, Some(0), Some(3), Some(12), Some(20)}

\* pattern.priority = pattern.priority || 5
PriorityOrDefault(priority) == IF priority = None \/ priority[1] = 0 THEN 5 ELSE priority[1]

\* addPattern(pattern), for a pattern that has its name; complete tells whether
\* it has its regex and its extract
addPattern(pattern) ==
    IF ~pattern.complete
    THEN /\ evt' = Event("addPattern", 0, "Pattern must have name, regex, and extract properties",
                         <<>>)
         /\ UNCHANGED patternVars
    ELSE /\ patterns' =
              [OPTION_PATTERNS |->
                  Append(patterns.OPTION_PATTERNS,
                         [name |-> pattern.name,
                          priority |-> PriorityOrDefault(pattern.priority)]),
               sortedPatterns |->
                  SortByPriority(Append(patterns.OPTION_PATTERNS,
                                        [name |-> pattern.name,
                                         priority |-> PriorityOrDefault(pattern.priority)]))]
         /\ registered' = Append(registered, pattern)
         /\ evt' = Event("addPattern", 0, "ok", <<>>)

RegistryInit == Init /\ mockMode = FALSE

AddPattern ==
    /\ Len(registered) < MaxPatterns
    /\ \E priority \in CustomPriorities, complete \in BOOLEAN :
         addPattern([name |-> CustomNames[Len(registered) + 1], priority |-> priority,
                     complete |-> complete])
    /\ UNCHANGED <<watcherVars, ptyVars, mockMode, themeVars, mockVars, clients, ws, recv,
                   accessVars, timeVars, crashed, nMsgs, notifierVars>>

RegistryNext == AddPattern

SpecRegistry == RegistryInit /\ [][RegistryNext]_vars

----------------------------------------------------------------------------
(* The order of the matchers *)

\* every registration so far passed a priority
AllExplicit == \A k \in 1..Len(registered) : registered[k].priority # None

\* the matchers in the order they were added: those of the module, then the
\* registered ones, each with the priority it was registered with
GivenPatterns ==
    OPTION_PATTERNS \o
    [k \in 1..Len(registered) |->
        [name |-> registered[k].name, priority |-> registered[k].priority[1]]]

\* the position of the matcher called name in the sequence ps
PositionOf(ps, name) == CHOOSE k \in 1..Len(ps) : ps[k].name = name

\* C28: after any sequence of addPattern registrations, the active order holds
\* every matcher once, sorted by priority descending with ties in the order of
\* registration, each registered matcher with the priority it was registered
\* with, 0 included
C28_ActiveOrderFollowsExplicitPriority ==
    AllExplicit =>
    /\ Len(patterns.sortedPatterns) = Len(GivenPatterns)
    /\ \A k \in 1..Len(GivenPatterns) :
          \E i \in 1..Len(patterns.sortedPatterns) :
              patterns.sortedPatterns[i].name = GivenPatterns[k].name
    /\ \A i, j \in 1..Len(patterns.sortedPatterns) :
          i < j =>
            LET a == PositionOf(GivenPatterns, patterns.sortedPatterns[i].name)
                b == PositionOf(GivenPatterns, patterns.sortedPatterns[j].name)
            IN \/ GivenPatterns[a].priority > GivenPatterns[b].priority
               \/ GivenPatterns[a].priority = GivenPatterns[b].priority /\ a < b

----------------------------------------------------------------------------
(* The server with a topic for the push relay: prompts and exits of the     *)
(* subprocess, answers of a client and the responses of the relay            *)

NotifyInit == ServerInit(Some("claude")) /\ mockMode = FALSE

NotifyMessages == {Inbound("start", <<>>), Inbound("input", <<"\r">>)}

NotifyMessage(c, m) == nMsgs < MaxNotifyMsgs /\ onMessage(c, m)

\* the outcomes of a request to the push relay: response.ok, another status, or
\* a failure of fetch
Outcomes == {"ok", "http_error", "network_error"}

\* the continuation of Notifier.notify when the request fetches[i] is answered
FetchResponse(i, outcome) ==
    /\ ~crashed
    /\ i \in 1..Len(fetches)
    /\ notifier' = Responded(fetches[i], outcome)
    /\ fetches' = RemoveAt(fetches, i)
    /\ nlog' = Logged([op |-> "response", prompt |-> fetches[i].prompt,
                       force |-> fetches[i].force, at |-> now, reason |-> outcome])
    /\ evt' = Event("response", 0, outcome, <<>>)
    /\ UNCHANGED <<watcherVars, ptyVars, mockMode, themeVars, mockVars, clients, ws, recv,
                   accessVars, timeVars, crashed, nMsgs, patternVars>>

NotifyNext ==
    \/ \E c \in Clients, tok \in Tokens : Connect(c, tok)
    \/ \E c \in Clients, m \in NotifyMessages : NotifyMessage(c, m)
    \/ \E p \in 1..MaxSpawns : PtyData(p, Chunk.yn)
    \/ \E p \in 1..MaxSpawns : PtyExit(p, 0)
    \/ \E i \in 1..MaxData, outcome \in Outcomes : FetchResponse(i, outcome)
    \/ Tick(debounceSeconds * 1000)

SpecNotify == NotifyInit /\ [][NotifyNext]_vars

----------------------------------------------------------------------------
(* The debounce memory and the answers of the operator *)

\* this step detects a trigger
TriggerStep == nTrigger' = nTrigger + 1

\* an input was forwarded to the running session, and no trigger was detected
\* since
AnsweredSinceTrigger ==
    \E k \in 1..Len(nlog) :
        /\ nlog[k].op = "reset"
        /\ \A j \in (k + 1)..Len(nlog) : nlog[j].op # "notify"

\* C29: when a trigger is detected after an input was forwarded to the running
\* session, the debounce memory of the notifier is empty and the notification
\* of the trigger is not debounced, whatever requests to the push relay were
\* awaiting their response while the input was handled
C29_AnswerClearsDebounce ==
    [][TriggerStep /\ AnsweredSinceTrigger =>
           /\ notifier.lastNotificationHash = None
           /\ nlog'[Len(nlog')].reason # "debounced"]_vars

\* the entry of the history is a notify call without force that sent its request
\* to the push relay
SentEntry(e) == e.op = "notify" /\ ~e.force /\ e.reason = "fetch"

\* C30: between two resetDebounce calls, at most one notification without force
\* for the same prompt is sent to the push relay within any window of
\* debounceSeconds: of two such notify calls less than debounceSeconds apart
\* with no resetDebounce between them, the later one is debounced and sends
\* nothing
C30_OneSendPerPromptAndWindow ==
    \A i, j \in 1..Len(nlog) :
        /\ i < j
        /\ SentEntry(nlog[i])
        /\ SentEntry(nlog[j])
        /\ nlog[i].prompt = nlog[j].prompt
        /\ nlog[j].at - nlog[i].at < debounceSeconds * 1000
        => \E k \in (i + 1)..(j - 1) : nlog[k].op = "reset"

----------------------------------------------------------------------------
(* The live connections and the connection window *)

\* the live connections of the address ip
LiveFrom(ip) == {c \in clients : IpOf(c) = ip}

\* C31: in every state, each connection of the live set has its own admission
\* timestamp in the connection window of its address: the window of an address
\* holds at least as many timestamps as the address has live connections
C31_LiveConnectionsInWindow ==
    \A ip \in Ips : Cardinality(LiveFrom(ip)) <= Len(wsConnections[ip])

----------------------------------------------------------------------------
(* The server with clients that connect and log out, and sessions that expire *)

LogoutInit == Init /\ mockMode = FALSE

\* app.post('/api/logout') with the session cookie tok
Logout(tok) ==
    /\ ~crashed
    /\ tok \in Tokens
    /\ sessions[tok] # None
    /\ sessions' = [sessions EXCEPT ![tok] = None]
    /\ evt' = Event("logout", 0, tok, <<>>)
    /\ UNCHANGED <<watcherVars, ptyVars, mockMode, patternVars, notifierVars, themeVars,
                   mockVars, clients, ws, recv, wsConnections, admitted, lastBan, bannedIps,
                   timeVars, crashed, nMsgs>>

LogoutConnect(c, tok) == Len(admitted) < MaxLogoutAdmits /\ Connect(c, tok)

LogoutNext ==
    \/ \E c \in Clients, tok \in Credentials : LogoutConnect(c, tok)
    \/ \E c \in Clients : Disconnect(c)
    \/ \E c \in Clients : Forget(c)
    \/ \E tok \in Tokens : Logout(tok)
    \/ \E d \in {WS_WINDOW, SESSION_DURATION + 1} : Tick(d)
    \/ SessionSweep

\* the timer of the sweep fires again and again; what the clients do is up to
\* them
SpecLogout == LogoutInit /\ [][LogoutNext]_vars /\ WF_vars(SessionSweep)

----------------------------------------------------------------------------
(* The connections of an invalidated session *)

\* the session credential the connection c was admitted with: the one valid
\* credential there is
AdmittedWith(c) == CHOOSE tok \in Tokens : TRUE

\* the credential was invalidated: logged out, swept, or older than
\* SESSION_DURATION
Invalidated(tok) ==
    sessions[tok] = None \/ now - sessions[tok][1] > SESSION_DURATION

\* C32: a live connection whose session credential is invalidated, by logout or
\* by expiry, is force-closed and removed from the live set
C32_InvalidatedSessionClosesConnections ==
    \A c \in Clients :
        (c \in clients /\ Invalidated(AdmittedWith(c))) ~> (c \notin clients)

----------------------------------------------------------------------------
(* validateArgs: the arguments a client may pass to the subprocess *)

\* An argument is a sequence of pieces: a word, "=", " " or ";" (one of the
\* characters of DANGEROUS_PATTERNS); the string is their concatenation.

\* the words a pattern of ALLOWED_CLAUDE_ARGS accepts: "opus" and "3" are model
\* names, "3" is a number of turns
ModelPattern == {"opus", "3"}
MaxTurnsPattern == {"3"}

\* ALLOWED_CLAUDE_ARGS: None for a boolean flag, the pattern for a flag that
\* takes a value
ALLOWED_CLAUDE_ARGS ==
    [flag \in {"--model", "--max-turns", "--verbose"} |->
        CASE flag = "--model" -> Some(ModelPattern)
          [] flag = "--max-turns" -> Some(MaxTurnsPattern)
          [] OTHER -> None]

MAX_ARGS == 10

\* DANGEROUS_PATTERNS.test(arg)
DANGEROUS_PATTERNS(arg) == \E k \in 1..Len(arg) : arg[k] = ";"

\* String(x).trim()
RECURSIVE ArgTrim(_)
ArgTrim(arg) ==
    IF arg = <<>> THEN arg
    ELSE IF Head(arg) = " " THEN ArgTrim(Tail(arg))
    ELSE IF arg[Len(arg)] = " " THEN ArgTrim(SubSeq(arg, 1, Len(arg) - 1))
    ELSE arg

\* arg.startsWith('-')
StartsWithDash(arg) == arg # <<>> /\ Head(arg) \in {"--model", "--max-turns", "--verbose", "--evil"}

\* the position of the first "=" of arg, 0 when it has none
IndexOfEq(arg) ==
    IF \E k \in 1..Len(arg) : arg[k] = "="
    THEN CHOOSE k \in 1..Len(arg) : arg[k] = "=" /\ \A j \in 1..(k - 1) : arg[j] # "="
    ELSE 0

\* flag in ALLOWED_CLAUDE_ARGS
IsAllowedFlag(flag) == Len(flag) = 1 /\ flag[1] \in DOMAIN ALLOWED_CLAUDE_ARGS

\* pattern.test(value)
PatternTest(pattern, value) == Len(value) = 1 /\ value[1] \in pattern[1]

\* the loop of validateArgs from position i of args
RECURSIVE ValidateFrom(_, _, _)
ValidateFrom(args, i, validated) ==
    IF ~(i <= Len(args) /\ Len(validated) < MAX_ARGS) THEN validated
    ELSE IF ArgTrim(args[i]) = <<>> \/ DANGEROUS_PATTERNS(ArgTrim(args[i]))
    THEN ValidateFrom(args, i + 1, validated)
    ELSE IF IndexOfEq(ArgTrim(args[i])) # 0
    THEN LET arg == ArgTrim(args[i])
             flag == SubSeq(arg, 1, IndexOfEq(arg) - 1)
             value == SubSeq(arg, IndexOfEq(arg) + 1, Len(arg))
         IN  IF /\ IsAllowedFlag(flag)
                /\ ALLOWED_CLAUDE_ARGS[flag[1]] # None
                /\ PatternTest(ALLOWED_CLAUDE_ARGS[flag[1]], value)
             THEN ValidateFrom(args, i + 1, Append(validated, flag \o <<"=">> \o value))
             ELSE ValidateFrom(args, i + 1, validated)
    ELSE IF StartsWithDash(ArgTrim(args[i]))
    THEN LET arg == ArgTrim(args[i])
         IN  IF ~IsAllowedFlag(arg) THEN ValidateFrom(args, i + 1, validated)
             ELSE IF /\ ALLOWED_CLAUDE_ARGS[arg[1]] # None
                     /\ i + 1 <= Len(args)
                     /\ ~StartsWithDash(ArgTrim(args[i + 1]))
                     /\ ~DANGEROUS_PATTERNS(ArgTrim(args[i + 1]))
                     /\ PatternTest(ALLOWED_CLAUDE_ARGS[arg[1]], ArgTrim(args[i + 1]))
             THEN ValidateFrom(args, i + 2, validated \o <<arg, ArgTrim(args[i + 1])>>)
             ELSE ValidateFrom(args, i + 1, Append(validated, arg))
    ELSE ValidateFrom(args, i + 1, validated)

validateArgs(args) == ValidateFrom(args, 1, <<>>)

----------------------------------------------------------------------------
(* validateArgs on argument arrays *)

ArgChoices ==
    { <<>>, <<" ", "--verbose", " ">>, <<"--verbose">>, <<"--model">>, <<"opus">>,
      <<"--max-turns">>, <<"3">>, <<"--model", "=", "opus">>, <<"--verbose", "=", "3">>,
      <<"--max-turns", "=", "opus">>, <<"--evil">>, <<"opus", ";">> }

\* the arrays of at most n arguments
ArgsUpTo(n) == UNION {[1..k -> ArgChoices] : k \in 0..n}

\* k boolean flags
Flags(k) == [j \in 1..k |-> <<"--verbose">>]

\* a mix of arguments, a run of boolean flags, and a mix again
ArgArrays ==
    { head \o Flags(k) \o tail :
        head \in ArgsUpTo(MaxArgsHead), k \in 0..MaxArgsFlags, tail \in ArgsUpTo(MaxArgsTail) }

ArgsInit == Init /\ mockMode = FALSE

\* one call of validateArgs; its arguments and its result are kept in evt
ValidateCall(args) ==
    /\ evt.kind = "init"
    /\ evt' = [kind |-> "validateArgs", client |-> 0, type |-> "", data |-> args,
               res |-> validateArgs(args)]
    /\ UNCHANGED <<watcherVars, ptyVars, mockMode, themeVars, mockVars, clients, ws, recv,
                   accessVars, timeVars, crashed, nMsgs, patternVars, notifierVars>>

ArgsNext == \E args \in ArgArrays : ValidateCall(args)

SpecArgs == ArgsInit /\ [][ArgsNext]_vars

\* C33: validateArgs returns at most MAX_ARGS arguments, whatever mix of
\* boolean flags, value-taking flags and values the array holds
C33_AtMostMaxArgs ==
    evt.kind = "validateArgs" => Len(evt.res) <= MAX_ARGS

----------------------------------------------------------------------------
(* The rolling window of the Watcher *)

\* a line with a character that is not white space
NonBlank(l) == \E k \in 1..Len(l) : l[k] \notin WhiteSpace

\* the non-blank lines of the stripped chunks given to process since the last
\* reset of the history log, in arrival order
RECURSIVE ArrivedSinceReset(_)
ArrivedSinceReset(log) ==
    IF log = <<>> \/ log[Len(log)].op = "reset" THEN <<>>
    ELSE LET lns == Split(stripAnsi(log[Len(log)].data))
         IN  ArrivedSinceReset(SubSeq(log, 1, Len(log) - 1))
                 \o SelectSeq(lns, LAMBDA l : NonBlank(l))

\* C34: after every Watcher.process call the window holds at most maxLines
\* lines, none of them blank, and they are the most recent non-blank stripped
\* lines in arrival order
C34_WindowIsMostRecentLines ==
    evt.kind = "process" =>
        /\ Len(lines) <= maxLines
        /\ \A i \in 1..Len(lines) : NonBlank(lines[i])
        /\ LET arrived == ArrivedSinceReset(wlog)
           IN  /\ Len(lines) = Min(Len(arrived), maxLines)
               /\ \A i \in 1..Len(lines) :
                      lines[i] = arrived[Len(arrived) - Len(lines) + i]

\* a process call that evicted the oldest line and dropped a blank one
C34_Witness ==
    /\ evt.kind = "process"
    /\ Len(ArrivedSinceReset(wlog)) > maxLines
    /\ Len(lines) = maxLines
    /\ lines[1] # ArrivedSinceReset(wlog)[1]
    /\ \E l \in {Split(stripAnsi(evt.data))[k] : k \in 1..Len(Split(stripAnsi(evt.data)))} :
           ~NonBlank(l)

----------------------------------------------------------------------------
(* Errors of the output handler *)

\* C35: handling an output chunk of the subprocess never raises an unhandled
\* error: not for a chunk that arrives between a stop and the exit
\* notification, and not for the chunk that starts the theme selection
C35_DataHandlerNeverRaises == evt.kind = "data" => ~crashed

----------------------------------------------------------------------------
(* Exit notifications of earlier subprocesses *)

\* C36: the exit notification of a subprocess that was stopped earlier never
\* marks a newer session that is still running as not running, and never
\* overwrites the exit code of the newer session
C36_StaleExitLeavesNewSession ==
    [][(/\ evt'.kind = "exit"
        /\ running
        /\ pty # None
        /\ evt'.client # pty[1]
        /\ evt'.client \in signaled)
       => (running' /\ exitCode' = exitCode)]_vars

----------------------------------------------------------------------------
(* The server with a subprocess that shows one prompt after another, and       *)
(* clients that ask for the state                                             *)

SnapshotInit == Init /\ mockMode = FALSE

SnapshotMessages == {Inbound("start", <<>>), Inbound("getState", <<>>)}

SnapshotChunks == {Chunk.yn, Chunk.menu, Chunk.text}

SnapshotMessage(c, m) == nMsgs < MaxMsgs /\ onMessage(c, m)

SnapshotNext ==
    \/ \E c \in Clients, tok \in Tokens : Connect(c, tok)
    \/ \E c \in Clients, m \in SnapshotMessages : SnapshotMessage(c, m)
    \/ \E p \in 1..MaxSpawns, data \in SnapshotChunks : PtyData(p, data)

SpecSnapshot == SnapshotInit /\ [][SnapshotNext]_vars

----------------------------------------------------------------------------
(* The trigger of a state snapshot *)

\* the most recent options event the Watcher emitted since its last reset:
\* None when there is none
RECURSIVE LastEmitted(_)
LastEmitted(log) ==
    IF log = <<>> \/ log[Len(log)].op = "reset" THEN None
    ELSE IF log[Len(log)].trig THEN log[Len(log)].ret
    ELSE LastEmitted(SubSeq(log, 1, Len(log) - 1))

\* the step sent a state snapshot to client c
SnapshotSent(c) ==
    /\ evt'.client = c
    /\ \/ evt'.kind = "connect" /\ c \in clients'
       \/ evt'.kind = "message" /\ evt'.type = "getState" /\ Len(recv'[c]) = Len(recv[c]) + 1
    /\ recv'[c][Len(recv'[c])].type = "state"

\* C37: whenever a state snapshot sent to a client reports a lastTrigger, its
\* pattern and its choices are those of the most recent options event the
\* Watcher emitted since its last reset
C37_SnapshotTriggerIsLastEvent ==
    [][\A c \in Clients :
          (SnapshotSent(c) /\ recv'[c][Len(recv'[c])].lastTrigger # None)
             => /\ LastEmitted(wlog') # None
                /\ recv'[c][Len(recv'[c])].lastTrigger[1].patternName
                       = LastEmitted(wlog')[1].patternName
                /\ recv'[c][Len(recv'[c])].lastTrigger[1].options
                       = LastEmitted(wlog')[1].options]_vars

----------------------------------------------------------------------------
(* Messages of a connection the server has closed *)

\* the server has force-closed the connection of c: for an oversized message
\* or at the violation threshold
ClosedByServer(c) == ws[c].state = CLOSING /\ ws[c].code \in {1009, 4429}

\* C38: after the server force-closed a connection, no later inbound message
\* of it is parsed or forwarded to the session, and none changes the ban map
C38_ClosedConnectionIsIgnored ==
    [][\A c \in Clients :
          (ClosedByServer(c) /\ evt'.kind = "message" /\ evt'.client = c)
             => /\ bannedIps' = bannedIps
                /\ UNCHANGED <<watcherVars, ptyVars, themeVars, mockVars, recv>>]_vars

----------------------------------------------------------------------------
(* The input of a client in mock mode *)

\* the step hands the input of a client message to the waiting mock sequence
MockInputAnswered ==
    /\ evt'.kind = "message" /\ evt'.type = "input"
    /\ mockMode /\ mockInputHandler # None
    /\ mockInputHandler' = None

\* C39: in mock mode an input with a carriage return that answers the scripted
\* prompt resets the Watcher to idle and broadcasts hideOptions to the open
\* clients, as the same input does for a real session
C39_MockCarriageReturnResetsAndHides ==
    [][(MockInputAnswered /\ HasCarriageReturn(evt'.data))
          => /\ lastTrigger' = None
             /\ \A c \in Clients :
                   (c \in clients /\ ws[c].state = OPEN)
                      => \E i \in (Len(recv[c]) + 1)..Len(recv'[c]) :
                            recv'[c][i] = HideOptionsMsg]_vars

----------------------------------------------------------------------------
(* The Watcher and the cut of the output into chunks *)

\* the window and the held trigger of a Watcher after the calls of log
RECURSIVE WatcherAfter(_)
WatcherAfter(log) ==
    IF log = <<>> THEN [lines |-> <<>>, lastTrigger |-> None]
    ELSE LET w == WatcherAfter(SubSeq(log, 1, Len(log) - 1))
         IN  IF log[Len(log)].op = "reset"
             THEN WatcherReset(w.lines, w.lastTrigger)
             ELSE LET r == WatcherProcess(w.lines, w.lastTrigger, log[Len(log)].data)
                  IN  [lines |-> r.lines, lastTrigger |-> r.lastTrigger]

\* the trigger events of a process call with outcome or history entry r
EventsOf(r) == IF r.trig THEN <<r.ret>> ELSE <<>>

\* the trigger events process(data) yields after the calls of log
EventsAfter(log, data) ==
    EventsOf(WatcherProcess(WatcherAfter(log).lines, WatcherAfter(log).lastTrigger, data))

\* the last two calls gave the Watcher the prompt line cut in the middle
CutPromptProcessed ==
    /\ Len(wlog) >= 2
    /\ wlog[Len(wlog) - 1].op = "process" /\ wlog[Len(wlog) - 1].data = Chunk.yn_head
    /\ wlog[Len(wlog)].op = "process" /\ wlog[Len(wlog)].data = Chunk.yn_tail

\* C40: trigger detection does not depend on the cut of the output into
\* chunks: the prompt line given to process as two consecutive chunks that cut
\* it in the middle yields the trigger events the Watcher would have emitted
\* had it been given the line as one chunk
C40_TriggersIndependentOfChunking ==
    CutPromptProcessed =>
        EventsOf(wlog[Len(wlog) - 1]) \o EventsOf(wlog[Len(wlog)])
            = EventsAfter(SubSeq(wlog, 1, Len(wlog) - 2), Chunk.yn_head \o Chunk.yn_tail)

====
